---- MODULE Spec2Model ----
(***************************************************************************)
(* Model of the network scanner of the 4D Helper extension                 *)
(* (networkScanner.ts, stored as src/CHANGELOG.md lines 61-493):           *)
(* scanSubnet (plain TCP sweep) and scanSubnetUDP (UDP discovery with      *)
(* related-port TCP follow-up), run on the single JavaScript event loop.   *)
(* One action is one uninterrupted run of the event loop: a socket event   *)
(* together with the promise continuations it releases.  The continuation  *)
(* of "await Promise.all(batchPromises)" is kept as its own step; nothing  *)
(* of the scan is in flight when it runs, so no other step can come        *)
(* between the last resolution of a batch and that continuation.           *)
(***************************************************************************)
EXTENDS Integers, Sequences, FiniteSets, TLC

\* ---------------------------------------------------------------- bounds
MaxHosts == 3
MaxBatchSize == 2
MaxBatchOps == 2
MaxClock == 3
MaxMsgLen == 4

\* ------------------------------------------------------ program constants
MaxPort == 65535
RelatedOffset == 2
PacketSize == 96
ServerTagOffset == 32
QuicTagOffset == 64

\* Port lists handed to a scan (getDefault4DPorts narrowed to one or two ports).
PortLists == { <<19813>>, <<19813, 19814>> }

\* Ports a discovery reply may claim: the two ends of the valid range ...
EdgePorts == { 1, MaxPort }
\* ... and, for the scans of one host, ports next to the ends and a usual one.
WidePorts == { 1, 2, 19813, MaxPort - 1, MaxPort }

\* The object JSON.parse made of a reply, as far as the scan reads it: its
\* port.  form "int": port is the integer given; "half": port is the number
\* given plus one half; "none": the object has no port (info.port is
\* undefined, the port field of the record is not read).
InfoWithPort(c) == [ port |-> c, form |-> "int" ]
InfoWithHalfPort(c) == [ port |-> c, form |-> "half" ]
InfoNoPort == [ port |-> 0, form |-> "none" ]

\* Replies of servers that keep to the protocol, and replies that do not.
EdgeInfos == { InfoWithPort(c) : c \in EdgePorts }
WideInfos == { InfoWithPort(c) : c \in WidePorts }
OddInfos == { InfoWithPort(19813), InfoWithHalfPort(19813), InfoNoPort }

VARIABLES
    kind,            \* which scan runs: "tcp" = scanSubnet, "udp" = scanSubnetUDP,
                     \* "hosts" = scanHosts
    netUp,           \* getLocalNetworkInfo() finds a non-loopback IPv4 interface
    ips,             \* generateSubnetIPs(subnetInfo), or the hosts argument of
                     \* scanHosts: hosts by last octet
    ports,           \* the ports argument
    batchSize,       \* the batchSize argument (scanHosts: one host at a time)
    onProgress,      \* whether the caller passed a progress callback
    replyDomain,     \* what the servers of this network may reply (parsed)
    tcpEnv,          \* how TCP ports answer: "any" or "parity" (see TcpOutcomes)
    pc,              \* position of the scan function
    ipIdx,           \* loop variable i / ipIdx
    probes,          \* scanSubnet: checkPort promises, by <<ip, port>>
    allResults,      \* scanSubnet: allResults
    ops,             \* scanSubnetUDP: discovery promise chains, by <<ip, port>>
    foundServers,    \* scanSubnetUDP: the Map, as its entries in insertion order
    completedChecks, \* scanSubnetUDP: completedChecks
    started,         \* hosts for which a probe or a discovery has been started
    progressLog,     \* the invocations of onProgress so far
    result,          \* the value the scan returned
    error,           \* the error the scan threw, "" when none
    opened,          \* the <<ip, port>> of the checkPort calls of scanSubnet and
                     \* scanHosts that resolved with isOpen true
    cp,              \* one call of checkPort looked at by itself: its socket,
                     \* its promise and the clock
    dc,              \* one call of discover4DServer looked at by itself: its
                     \* socket, timer and promise
    sn,              \* getLocalNetworkInfo and generateSubnetIPs looked at by
                     \* themselves: the interface, the SubnetInfo, the host list
    sc,              \* the scan cache of serverManager.ts, the clock, and its callers
    cc,              \* the connect-to-server command and the cache it shares
    sv,              \* the scan-servers command around its scanSubnetUDP call
    pj,              \* the open-project command: workspace, settings, resolveProjectFile
    lo,              \* the launch-options quick pick of selectLaunchOptions
    ss               \* the setting 4d-helper.servers and the last addServer or removeServer call

vars == << kind, netUp, ips, ports, batchSize, onProgress, replyDomain, tcpEnv, pc,
           ipIdx, probes, allResults, ops, foundServers, completedChecks, started,
           progressLog, result, error, opened, cp, dc, sn, sc, cc, sv, pj, lo, ss >>

scanVars == << kind, netUp, ips, ports, batchSize, onProgress, replyDomain, tcpEnv,
               pc, ipIdx, probes, allResults, ops, foundServers, completedChecks,
               started, progressLog, result, error, opened >>

\* What the scan functions leave alone: their arguments, the network, and the
\* calls looked at by themselves.
config == << kind, netUp, ips, ports, batchSize, onProgress, replyDomain, tcpEnv,
             cp, dc, sn, sc, cc, sv, pj, lo, ss >>

\* ---------------------------------------------------------------- helpers
Min(a, b) == IF a <= b THEN a ELSE b

Range(s) == { s[k] : k \in DOMAIN s }

RECURSIVE InsertAsc(_, _)
InsertAsc(x, s) ==
    IF s = << >> THEN << x >>
    ELSE IF x <= Head(s) THEN << x >> \o s
    ELSE << Head(s) >> \o InsertAsc(x, Tail(s))

\* Array.prototype.sort((a, b) => a - b)
RECURSIVE SortAsc(_)
SortAsc(s) == IF s = << >> THEN << >> ELSE InsertAsc(Head(s), SortAsc(Tail(s)))

\* ips.slice(i, i + batchSize)
Slice(s, i, n) == SubSeq(s, i + 1, Min(i + n, Len(s)))

\* batch.flatMap(ip => ports.map(port => ...)): the <<ip, port>> pairs of a
\* batch, ip-major then port, as a sequence.
RECURSIVE FlatPairs(_, _)
FlatPairs(batch, ps) ==
    IF batch = << >> THEN << >>
    ELSE [ k \in 1..Len(ps) |-> << Head(batch), ps[k] >> ] \o FlatPairs(Tail(batch), ps)

CurrentBatch == Slice(ips, ipIdx, batchSize)
CurrentPairs == FlatPairs(CurrentBatch, ports)

\* Position of a host in ips and the number (from 1) of the batch it falls in.
PosOf(h) == CHOOSE k \in DOMAIN ips : ips[k] = h
BatchOf(h) == ((PosOf(h) - 1) \div batchSize) + 1
NumBatches == (Len(ips) + batchSize - 1) \div batchSize
HostsUpToBatch(k) == { ips[j] : j \in 1..Min(k * batchSize, Len(ips)) }

\* ------------------------------------------------------------ observation
\* Sockets open at this moment: checkPort sockets of scanSubnet, discovery
\* sockets of scanSubnetUDP and the checkPort sockets of its follow-ups.
TcpInFlight == Cardinality({ o \in DOMAIN probes : probes[o] = "pending" })
UdpInFlight == Cardinality({ o \in DOMAIN ops : ops[o].st = "udp" })
FollowUpInFlight ==
    Cardinality({ oq \in UNION { { << o, q >> : q \in DOMAIN ops[o].tcp } : o \in DOMAIN ops } :
                    ops[oq[1]].tcp[oq[2]] = "pending" })
InFlight == TcpInFlight + UdpInFlight + FollowUpInFlight

\* One invocation of onProgress: its three arguments, and what was in flight
\* and which hosts had been started at the moment of the call.
ProgressCall(scanned, total, found) ==
    [ scanned |-> scanned, total |-> total, found |-> found,
      inFlight |-> InFlight, started |-> started ]

\* ------------------------------------------------------------------- Init
NullInfo == [ null |-> TRUE ]
UdpPending == [ st |-> "udp", info |-> NullInfo, followed |-> FALSE, tcp |-> << >> ]

\* No checkPort call looked at by itself.
CpIdle ==
    [ form |-> "int", port |-> 0, state |-> "none", connecting |-> FALSE,
      listeners |-> { }, destroyed |-> FALSE, resolveCalls |-> 0,
      value |-> [ unset |-> TRUE ], startTime |-> 0, now |-> 0,
      firstEvent |-> "none", firstAt |-> 0 ]

\* What a promise of discover4DServer may hold.
NullValue == [ kind |-> "null" ]

\* No discover4DServer call looked at by itself.
DcIdle ==
    [ port |-> 0, state |-> "none", value |-> NullValue, closed |-> FALSE,
      closeCalls |-> 0, timer |-> "unset", sendCb |-> "none",
      sent |-> << >>, resolveCalls |-> 0, consumed |-> 0, msg |-> << >>,
      cause |-> "none" ]

\* No subnet computation looked at by itself.
SnIdle == [ stage |-> "none" ]

\* The scan cache not looked at.
ScIdle == [ stage |-> "none" ]

\* No connect-to-server command looked at.
CcIdle == [ stage |-> "none" ]

\* No scan-servers command looked at.
SvIdle == [ stage |-> "none" ]

\* No open-project command looked at.
PjIdle == [ stage |-> "none" ]

\* No launch-options picker looked at.
LoIdle == [ stage |-> "none" ]

\* The saved-server list not looked at.
SsIdle == [ stage |-> "none" ]

InitScan ==
    /\ pc = "idle"
    /\ ipIdx = 0
    /\ probes = << >>
    /\ allResults = << >>
    /\ ops = << >>
    /\ foundServers = << >>
    /\ completedChecks = 0
    /\ started = { }
    /\ progressLog = << >>
    /\ result = << >>
    /\ error = ""
    /\ opened = { }

\* Sweeps of up to MaxHosts hosts in batches of up to MaxBatchSize; a
\* discovery batch holds at most MaxBatchOps discoveries.
InitSweep ==
    /\ kind \in { "tcp", "udp" }
    /\ netUp \in BOOLEAN
    /\ \E h \in 0..MaxHosts : ips = [ j \in 1..h |-> j ]
    /\ ports \in PortLists
    /\ batchSize \in 1..MaxBatchSize
    /\ kind = "udp" => batchSize * Len(ports) <= MaxBatchOps
    /\ onProgress \in BOOLEAN
    /\ replyDomain \in (IF kind = "udp" THEN { EdgeInfos, OddInfos } ELSE { { } })
    /\ tcpEnv = IF kind = "udp" THEN "parity" ELSE "any"

\* Discovery of a single host whose replies may claim any port of WidePorts.
InitOneHost ==
    /\ kind = "udp"
    /\ netUp = TRUE
    /\ ips = << 1 >>
    /\ ports \in PortLists
    /\ batchSize = 1
    /\ onProgress = TRUE
    /\ replyDomain = WideInfos
    /\ tcpEnv = "any"

\* scanHosts over a list of distinct hosts the caller chose, in the caller's
\* order; it takes one host per turn of its loop.
InitHosts ==
    /\ kind = "hosts"
    /\ netUp \in BOOLEAN
    /\ \E h \in 0..MaxHosts : ips = [ j \in 1..h |-> h + 1 - j ]
    /\ ports \in PortLists
    /\ batchSize = 1
    /\ onProgress \in BOOLEAN
    /\ replyDomain = { }
    /\ tcpEnv = "any"

Init == (InitSweep \/ InitOneHost \/ InitHosts) /\ InitScan /\ cp = CpIdle /\ dc = DcIdle /\ sn = SnIdle /\ sc = ScIdle /\ cc = CcIdle /\ sv = SvIdle /\ pj = PjIdle /\ lo = LoIdle /\ ss = SsIdle

\* ------------------------------------------------------------- scanSubnet
\* checkPort(ip, port, timeout) called: the socket is connecting.
CheckPortStart == "pending"
\* The events a checkPort socket listens for.
SocketEvents == { "connect", "timeout", "error" }
\* checkPort resolves on the first event of its socket: "connect" gives isOpen
\* true, "timeout" and "error" (refused, unreachable, ...) give isOpen false.
CheckPortResult(ev) == IF ev = "connect" THEN "open" ELSE "closed"
\* What a connection attempt to host h, port q may meet first: anything, or, on
\* the networks of the discovery sweeps, a port that accepts exactly when h + q
\* is even and refuses otherwise.  socket.setTimeout(timeout) makes sure that
\* there is a first event.
TcpOutcomesNone(h, q) == { }
TcpOutcomes(h, q) ==
    IF tcpEnv = "any" THEN SocketEvents
    ELSE IF (h + q) % 2 = 0 THEN { "connect" } ELSE { "error" }

\* const subnetInfo = getLocalNetworkInfo(); if (!subnetInfo) throw ...
LookupUnchecked(up) == "loop"
AfterLookup(up) == IF up THEN "loop" ELSE "failed"
NoNetworkError == "Could not determine local network information"
\* what a checkPort call rejects with when socket.connect throws
BadPortError == "ERR_SOCKET_BAD_PORT"

\* results.filter((r) => r.isOpen)
FilterNone(st) == TRUE
FilterOpen(st) == st = "open"

\* await Promise.all(batchPromises) of scanSubnet: every promise is settled.
TcpBatchSettledAny(pairs) ==
    \E k \in DOMAIN pairs : probes[pairs[k]] # "pending"
TcpBatchSettled(pairs) ==
    \A k \in DOMAIN pairs : probes[pairs[k]] # "pending"

\* scanned argument of scanSubnet's progress call
TcpScannedNoMin(i, n, len) == i + n
TcpScanned(i, n, len) == Min(i + n, len)

\* scanSubnet(...) is called: local network lookup, then the loop is entered.
ScanSubnetCall ==
    /\ kind = "tcp"
    /\ pc = "idle"
    /\ pc' = AfterLookup(netUp)
    /\ error' = IF pc' = "failed" THEN NoNetworkError ELSE error
    /\ UNCHANGED << opened, config, ipIdx, probes, allResults, ops, foundServers,
                    completedChecks, started, progressLog, result >>

\* Loop test of scanSubnet: start the checkPort calls of the next batch and
\* suspend at the await, or return allResults.
TcpLoop ==
    /\ kind = "tcp"
    /\ pc = "loop"
    /\ IF ipIdx < Len(ips)
       THEN /\ probes' = [ o \in (DOMAIN probes) \cup Range(CurrentPairs) |->
                             IF o \in Range(CurrentPairs) THEN CheckPortStart
                             ELSE probes[o] ]
            /\ started' = started \cup Range(CurrentBatch)
            /\ pc' = "await"
            /\ UNCHANGED result
       ELSE /\ pc' = "done"
            /\ result' = allResults
            /\ UNCHANGED << probes, started >>
    /\ UNCHANGED << config, ipIdx, allResults, ops, foundServers, completedChecks,
                    progressLog, error, opened >>

\* A checkPort socket of scanSubnet or scanHosts gets its first event.
TcpProbeResolve(o, ev) ==
    /\ kind \in { "tcp", "hosts" }
    /\ o \in DOMAIN probes
    /\ probes[o] = "pending"
    /\ probes' = [ probes EXCEPT ![o] = CheckPortResult(ev) ]
    /\ opened' = IF ev = "connect" THEN opened \cup { o } ELSE opened
    /\ UNCHANGED << config, pc, ipIdx, allResults, ops, foundServers,
                    completedChecks, started, progressLog, result, error >>

\* Continuation of the await of scanSubnet: collect the open results of the
\* batch in promise order, report progress, advance the loop variable.  The
\* settled promises of the batch are dropped with batchPromises.
TcpBarrier ==
    /\ kind = "tcp"
    /\ pc = "await"
    /\ TcpBatchSettled(CurrentPairs)
    /\ LET openPorts == SelectSeq(CurrentPairs, LAMBDA o : FilterOpen(probes[o]))
           found == allResults \o [ k \in 1..Len(openPorts) |->
                        [ host |-> openPorts[k][1], port |-> openPorts[k][2],
                          isOpen |-> TRUE ] ]
       IN /\ allResults' = found
          /\ progressLog' =
                IF onProgress
                THEN Append(progressLog,
                            ProgressCall(TcpScanned(ipIdx, batchSize, Len(ips)),
                                         Len(ips), found))
                ELSE progressLog
    /\ ipIdx' = ipIdx + batchSize
    /\ pc' = "loop"
    /\ probes' = [ o \in { x \in DOMAIN probes : probes[x] = "pending" } |-> probes[o] ]
    /\ UNCHANGED << config, ops, foundServers, completedChecks, started, result, error, opened >>

NextTcp ==
    \/ ScanSubnetCall
    \/ TcpLoop
    \/ \E o \in DOMAIN probes : \E ev \in TcpOutcomes(o[1], o[2]) :
           TcpProbeResolve(o, ev)
    \/ TcpBarrier

\* -------------------------------------------------------------- scanHosts
\* scanHosts(...) is called: no network lookup, the loop is entered.
ScanHostsCall ==
    /\ kind = "hosts"
    /\ pc = "idle"
    /\ pc' = "loop"
    /\ UNCHANGED << config, ipIdx, probes, allResults, ops, foundServers,
                    completedChecks, started, progressLog, result, error, opened >>

\* Loop test of scanHosts: scanHostPorts(hosts[i], ports) starts a checkPort
\* per port and the loop suspends at its await, or allResults is returned.
HostsLoop ==
    /\ kind = "hosts"
    /\ pc = "loop"
    /\ IF ipIdx < Len(ips)
       THEN /\ probes' = [ o \in (DOMAIN probes) \cup Range(CurrentPairs) |->
                             IF o \in Range(CurrentPairs) THEN CheckPortStart
                             ELSE probes[o] ]
            /\ started' = started \cup Range(CurrentBatch)
            /\ pc' = "await"
            /\ UNCHANGED result
       ELSE /\ pc' = "done"
            /\ result' = allResults
            /\ UNCHANGED << probes, started >>
    /\ UNCHANGED << config, ipIdx, allResults, ops, foundServers, completedChecks,
                    progressLog, error, opened >>

\* Promise.all of scanHostPorts is settled: it returns the open results in
\* port order, scanHosts pushes them and reports onProgress(i + 1, ...).
HostsBarrier ==
    /\ kind = "hosts"
    /\ pc = "await"
    /\ TcpBatchSettled(CurrentPairs)
    /\ LET openPorts == SelectSeq(CurrentPairs, LAMBDA o : FilterOpen(probes[o]))
           found == allResults \o [ k \in 1..Len(openPorts) |->
                        [ host |-> openPorts[k][1], port |-> openPorts[k][2],
                          isOpen |-> TRUE ] ]
       IN /\ allResults' = found
          /\ progressLog' =
                IF onProgress
                THEN Append(progressLog, ProgressCall(ipIdx + 1, Len(ips), found))
                ELSE progressLog
    /\ ipIdx' = ipIdx + 1
    /\ pc' = "loop"
    /\ probes' = [ o \in { x \in DOMAIN probes : probes[x] = "pending" } |-> probes[o] ]
    /\ UNCHANGED << config, ops, foundServers, completedChecks, started, result, error, opened >>

NextHosts ==
    \/ ScanHostsCall
    \/ HostsLoop
    \/ \E o \in DOMAIN probes : \E ev \in TcpOutcomes(o[1], o[2]) :
           TcpProbeResolve(o, ev)
    \/ HostsBarrier

\* ---------------------------------------------------------- scanSubnetUDP
\* Map<string, Server4DScanResult> as the sequence of its entries in insertion
\* order; has, set (an existing key keeps its place) and values().
MapHas(m, key) == \E k \in DOMAIN m : m[k].key = key
MapSetAlone(m, key, value) == << [ key |-> key, value |-> value ] >>
MapSet(m, key, value) ==
    IF MapHas(m, key)
    THEN [ k \in DOMAIN m |-> IF m[k].key = key THEN [ key |-> key, value |-> value ]
                              ELSE m[k] ]
    ELSE Append(m, [ key |-> key, value |-> value ])
MapValues(m) == [ k \in DOMAIN m |-> m[k].value ]

\* const key = `${ip}:${info.port}`: the text before the colon is the dotted
\* address and holds no colon, so the string is the pair of ip and the text
\* of info.port ("19813", "19813.5", "undefined").
DiscKeyProbedPort(ip, port, info) == << ip, port, "int" >>
DiscKey(ip, port, info) == << ip, info.port, info.form >>

\* The ports of the follow-up: info.port + offset for offset = -2..2, kept
\* when relatedPort > 0 && relatedPort <= 65535, in offset order.
RelatedWindow(p) == [ k \in 1..(2 * RelatedOffset + 1) |-> p + k - RelatedOffset - 1 ]
RelatedPortsUnclipped(p) == RelatedWindow(p)
RelatedPortsWider(p) ==
    SelectSeq([ k \in 1..(2 * RelatedOffset + 3) |-> p + k - RelatedOffset - 2 ],
              LAMBDA q : q > 0 /\ q <= MaxPort)
RelatedPorts(p) == SelectSeq(RelatedWindow(p), LAMBDA q : q > 0 /\ q <= MaxPort)

\* The same loop for any info.port.  An undefined port gives NaN, which fails
\* both comparisons; n + 1/2 + offset passes them when n + offset is in
\* 0..65534, and the ports pushed are then not integers.
RelatedPortsOf(info) ==
    IF info.form = "int" THEN RelatedPorts(info.port)
    ELSE IF info.form = "half"
    THEN SelectSeq(RelatedWindow(info.port), LAMBDA q : q >= 0 /\ q < MaxPort)
    ELSE << >>

\* socket.connect(port, host) throws on a port that is not an integer of
\* 0..65535; inside the promise executor of checkPort that rejects the promise.
CheckPortRejects(form, q) == form # "int" \/ q < 0 \/ q > MaxPort

\* serverResult: relatedPorts are the ports of the open results, in the order
\* of tcpChecks, then sorted ascending.
ServerResult(ip, info, tcp) ==
    [ host |-> ip, port |-> info.port, isOpen |-> TRUE, discoveryInfo |-> info,
      relatedPorts |->
          SortAsc(SelectSeq(RelatedPortsOf(info), LAMBDA q : tcp[q] = "open")) ]

\* completedChecks++ at the head of the discovery continuation
CountCheckReplies(c, info) == IF info = NullInfo THEN c ELSE c + 1
CountCheck(c, info) == c + 1

\* await Promise.all(batchPromises) of scanSubnetUDP: every chain is settled.
UdpBatchSettledAny(pairs) ==
    \E k \in DOMAIN pairs : ops[pairs[k]].st = "done"
UdpBatchSettled(pairs) ==
    \A k \in DOMAIN pairs : ops[pairs[k]].st = "done"

\* What discover4DServer may resolve with on this network.
Replies == { NullInfo } \cup replyDomain

\* scanSubnetUDP(...) is called: local network lookup, then the loop is entered.
ScanSubnetUDPCall ==
    /\ kind = "udp"
    /\ pc = "idle"
    /\ pc' = AfterLookup(netUp)
    /\ error' = IF pc' = "failed" THEN NoNetworkError ELSE error
    /\ UNCHANGED << opened, config, ipIdx, probes, allResults, ops, foundServers,
                    completedChecks, started, progressLog, result >>

\* Loop test of scanSubnetUDP: send a discovery to every ip:port of the next
\* batch and suspend at the await, or return the values of the map.
UdpLoop ==
    /\ kind = "udp"
    /\ pc = "loop"
    /\ IF ipIdx < Len(ips)
       THEN /\ ops' = [ o \in (DOMAIN ops) \cup Range(CurrentPairs) |->
                          IF o \in Range(CurrentPairs) THEN UdpPending ELSE ops[o] ]
            /\ started' = started \cup Range(CurrentBatch)
            /\ pc' = "await"
            /\ UNCHANGED result
       ELSE /\ pc' = "done"
            /\ result' = MapValues(foundServers)
            /\ UNCHANGED << ops, started >>
    /\ UNCHANGED << config, ipIdx, probes, allResults, foundServers, completedChecks,
                    progressLog, error, opened >>

\* discover4DServer(ip, port) resolves with info and the .then callback runs up
\* to its await: count the check; on a reply whose key is not in the map start
\* the related checkPort calls (with none to start, the entry is set at once).
\* When those calls reject, Promise.all(tcpChecks) rejects, the chain rejects,
\* Promise.all(batchPromises) rejects and the scan throws out of its await,
\* all before the next event; no socket of such a call ever connects.
DiscoverResolve(o, info) ==
    /\ kind = "udp"
    /\ o \in DOMAIN ops
    /\ ops[o].st = "udp"
    /\ completedChecks' = CountCheck(completedChecks, info)
    /\ IF info = NullInfo
       THEN /\ ops' = [ ops EXCEPT ![o] = [ @ EXCEPT !.st = "done" ] ]
            /\ UNCHANGED << foundServers, pc, error, opened >>
       ELSE LET key == DiscKey(o[1], o[2], info)
                rel == RelatedPortsOf(info)
            IN  IF MapHas(foundServers, key)
                THEN /\ ops' = [ ops EXCEPT ![o] = [ @ EXCEPT !.st = "done", !.info = info ] ]
                     /\ UNCHANGED << foundServers, pc, error, opened >>
                ELSE IF rel = << >>
                THEN /\ ops' = [ ops EXCEPT ![o] =
                                   [ st |-> "done", info |-> info, followed |-> TRUE,
                                     tcp |-> << >> ] ]
                     /\ foundServers' = MapSet(foundServers, key,
                                               ServerResult(o[1], info, << >>))
                     /\ UNCHANGED << pc, error, opened >>
                ELSE IF \E k \in DOMAIN rel : CheckPortRejects(info.form, rel[k])
                THEN /\ ops' = [ ops EXCEPT ![o] =
                                   [ st |-> "rejected", info |-> info, followed |-> FALSE,
                                     tcp |-> << >> ] ]
                     /\ pc' = IF pc = "await" THEN "failed" ELSE pc
                     /\ error' = IF pc = "await" THEN BadPortError ELSE error
                     /\ UNCHANGED << foundServers, opened >>
                ELSE /\ ops' = [ ops EXCEPT ![o] =
                                   [ st |-> "followup", info |-> info, followed |-> TRUE,
                                     tcp |-> [ q \in Range(rel) |-> CheckPortStart ] ] ]
                     /\ UNCHANGED << foundServers, pc, error, opened >>
    /\ UNCHANGED << config, ipIdx, probes, allResults, started, progressLog,
                    result >>

\* A related checkPort of a follow-up resolves; when it is the last one of its
\* Promise.all the callback goes on: it builds serverResult and sets the entry.
FollowUpResolve(o, q, ev) ==
    /\ kind = "udp"
    /\ o \in DOMAIN ops
    /\ ops[o].st = "followup"
    /\ q \in DOMAIN ops[o].tcp
    /\ ops[o].tcp[q] = "pending"
    /\ LET tcp == [ ops[o].tcp EXCEPT ![q] = CheckPortResult(ev) ]
           info == ops[o].info
       IN  IF \E r \in DOMAIN tcp : tcp[r] = "pending"
           THEN /\ ops' = [ ops EXCEPT ![o] = [ @ EXCEPT !.tcp = tcp ] ]
                /\ UNCHANGED foundServers
           ELSE /\ ops' = [ ops EXCEPT ![o] = [ @ EXCEPT !.tcp = tcp, !.st = "done" ] ]
                /\ foundServers' = MapSet(foundServers, DiscKey(o[1], o[2], info),
                                          ServerResult(o[1], info, tcp))
    /\ UNCHANGED << config, pc, ipIdx, probes, allResults, completedChecks,
                    started, progressLog, result, error, opened >>

\* Continuation of the await of scanSubnetUDP: report progress with the values
\* of the map, advance the loop variable.  The settled chains of the batch are
\* dropped with batchPromises.
UdpBarrier ==
    /\ kind = "udp"
    /\ pc = "await"
    /\ UdpBatchSettled(CurrentPairs)
    /\ LET totalUDPChecks == Len(ips) * Len(ports)
       IN  progressLog' =
             IF onProgress
             THEN Append(progressLog,
                         ProgressCall(Min(completedChecks, totalUDPChecks),
                                      totalUDPChecks, MapValues(foundServers)))
             ELSE progressLog
    /\ ipIdx' = ipIdx + batchSize
    /\ pc' = "loop"
    /\ ops' = [ o \in { x \in DOMAIN ops : ops[x].st # "done" } |-> ops[o] ]
    /\ UNCHANGED << config, probes, allResults, foundServers, completedChecks,
                    started, result, error, opened >>

NextUdp ==
    \/ ScanSubnetUDPCall
    \/ UdpLoop
    \/ \E o \in DOMAIN ops : \E info \in Replies : DiscoverResolve(o, info)
    \/ \E o \in DOMAIN ops : \E q \in DOMAIN ops[o].tcp :
           \E ev \in TcpOutcomes(o[1], q) : FollowUpResolve(o, q, ev)
    \/ UdpBarrier

Next == NextTcp \/ NextHosts \/ NextUdp

Spec == Init /\ [][Next]_vars

\* The event loop runs whatever is ready: the continuation of the scan, and the
\* first event of every socket (its timeout at the latest).
FairSpec == Spec /\ WF_vars(Next)

\* -------------------------------------------------------------- checkPort
\* One call checkPort(host, port, timeout), event by event.  cp.form and cp.port
\* are the port argument (as in RelatedPortsOf), cp.now is Date.now().
ProbeArgs == { << "int", 19813 >>, << "int", MaxPort >>, << "int", MaxPort + 1 >>,
               << "half", 19811 >> }

\* No scan runs while a single call is looked at.
NoScan ==
    /\ kind = "none"
    /\ netUp = TRUE
    /\ ips = << >>
    /\ ports = << >>
    /\ batchSize = 1
    /\ onProgress = FALSE
    /\ replyDomain = { }
    /\ tcpEnv = "any"
    /\ InitScan

InitProbe ==
    /\ NoScan
    /\ dc = DcIdle
    /\ \E a \in ProbeArgs : \E t \in 0..1 :
          cp = [ CpIdle EXCEPT !.form = a[1], !.port = a[2], !.now = t ]
    /\ sn = SnIdle
    /\ sc = ScIdle
    /\ cc = CcIdle
    /\ sv = SvIdle
    /\ pj = PjIdle
    /\ lo = LoIdle
    /\ ss = SsIdle

\* const cleanup = () => { socket.removeAllListeners(); socket.destroy(); }
CleanupKeepListeners(c) == [ c EXCEPT !.destroyed = TRUE ]
Cleanup(c) == [ c EXCEPT !.listeners = { }, !.destroyed = TRUE ]

\* resolve(v) of the promise: the first call settles it, later calls do nothing.
Resolve(c, v) ==
    [ c EXCEPT !.resolveCalls = @ + 1,
               !.state = IF @ = "pending" THEN "fulfilled" ELSE @,
               !.value = IF c.state = "pending" THEN v ELSE @ ]

\* const responseTime = Date.now() - startTime
ResponseTime(c) == c.now - c.startTime

\* The handlers of "connect", "timeout" and "error".
OnSocketEvent(c, ev) ==
    IF ev = "connect"
    THEN LET responseTime == ResponseTime(c)
         IN  Resolve(Cleanup(c), [ isOpen |-> TRUE, responseTime |-> responseTime ])
    ELSE Resolve(Cleanup(c), [ isOpen |-> FALSE ])

\* checkPort is called: startTime is taken, the promise executor makes the
\* socket, arms its timeout, attaches the three listeners and calls
\* socket.connect, which throws on a bad port and so rejects the promise.
CheckPortCall ==
    /\ cp.state = "none"
    /\ cp' = [ cp EXCEPT !.startTime = cp.now,
                         !.listeners = SocketEvents,
                         !.connecting = ~CheckPortRejects(cp.form, cp.port),
                         !.state = IF CheckPortRejects(cp.form, cp.port)
                                   THEN "rejected" ELSE "pending" ]
    /\ UNCHANGED << scanVars, dc, sn, sc, cc, sv, pj, lo, ss >>

\* The socket emits ev: "timeout" once its timer is armed, "connect" and
\* "error" once it is connecting; the listener of ev runs if there is one.
SocketEmit(ev) ==
    /\ cp.state # "none"
    /\ ev = "timeout" \/ cp.connecting
    /\ ev \in cp.listeners
    /\ cp' = [ OnSocketEvent(cp, ev) EXCEPT
                 !.firstEvent = IF @ = "none" THEN ev ELSE @,
                 !.firstAt = IF cp.firstEvent = "none" THEN cp.now ELSE @ ]
    /\ UNCHANGED << scanVars, dc, sn, sc, cc, sv, pj, lo, ss >>

\* A millisecond passes.
ClockTick ==
    /\ cp.now < MaxClock
    /\ cp' = [ cp EXCEPT !.now = @ + 1 ]
    /\ UNCHANGED << scanVars, dc, sn, sc, cc, sv, pj, lo, ss >>

NextProbe ==
    \/ CheckPortCall
    \/ \E ev \in SocketEvents : SocketEmit(ev)
    \/ ClockTick

SpecProbe == InitProbe /\ [][NextProbe]_vars

\* ------------------------------------------------------- discover4DServer
\* Buffer.alloc(size, fill) and buf.write(string, offset, "utf8") for a string
\* given by its bytes; a write stops at the end of the buffer.
BufferAlloc(size, fill) == [ k \in 1..size |-> fill ]
BufferWriteShifted(buf, bytes, offset) ==
    [ k \in 1..Len(buf) |->
        IF k > offset + 1 /\ k <= offset + 1 + Len(bytes) THEN bytes[k - offset - 1]
        ELSE buf[k] ]
BufferWrite(buf, bytes, offset) ==
    [ k \in 1..Len(buf) |->
        IF k > offset /\ k <= offset + Len(bytes) THEN bytes[k - offset] ELSE buf[k] ]

\* "4D Server V" and "4DQuicNegociation" in UTF-8
ServerTag == << 52, 68, 32, 83, 101, 114, 118, 101, 114, 32, 86 >>
QuicTag == << 52, 68, 81, 117, 105, 99, 78, 101, 103, 111, 99, 105, 97, 116, 105, 111,
             110 >>

Build4DDiscoveryPacket ==
    BufferWrite(BufferWrite(BufferAlloc(PacketSize, 0), ServerTag, ServerTagOffset),
                QuicTag, QuicTagOffset)

\* A datagram as the text msg.toString("utf8") gives, character by character.
\* "x" is any character that is no brace and starts no JSON value, "7" a JSON
\* number; the others stand for the members between the braces of an object:
\* "full" for host, service, database and port 19813, "noport" for the same
\* without port, "bigport" for the same with port 70000.
Bodies == { "full", "noport", "bigport" }
Chars == { "{", "}", "x", "7" } \cup Bodies
Messages == UNION { [ 1..n -> Chars ] : n \in 0..MaxMsgLen }

\* String.prototype.indexOf, lastIndexOf and substring, positions from 0.
IndexOf(str, ch) ==
    IF \E k \in DOMAIN str : str[k] = ch
    THEN (CHOOSE k \in DOMAIN str : str[k] = ch /\ \A j \in 1..(k - 1) : str[j] # ch) - 1
    ELSE -1
LastIndexOf(str, ch) ==
    IF \E k \in DOMAIN str : str[k] = ch
    THEN (CHOOSE k \in DOMAIN str :
              str[k] = ch /\ \A j \in (k + 1)..Len(str) : str[j] # ch) - 1
    ELSE -1
Clamp(i, len) == IF i < 0 THEN 0 ELSE IF i > len THEN len ELSE i
Substring(str, a, b) ==
    LET x == Clamp(a, Len(str))
        y == Clamp(b, Len(str))
    IN  IF x <= y THEN SubSeq(str, x + 1, y) ELSE SubSeq(str, y + 1, x)

\* JSON.parse: the object of a brace pair around members or around nothing, the
\* number of a number; every other text throws.  An object is given by
\* whether host, service and database are there as strings and by its port as
\* in InfoWithPort.
JsonObject(strings, info) ==
    [ kind |-> "object", strings |-> strings, port |-> info.port, form |-> info.form ]
JsonParse(text) ==
    IF text = << "{", "full", "}" >>
    THEN [ ok |-> TRUE, value |-> JsonObject(TRUE, InfoWithPort(19813)) ]
    ELSE IF text = << "{", "noport", "}" >>
    THEN [ ok |-> TRUE, value |-> JsonObject(TRUE, InfoNoPort) ]
    ELSE IF text = << "{", "bigport", "}" >>
    THEN [ ok |-> TRUE, value |-> JsonObject(TRUE, InfoWithPort(70000)) ]
    ELSE IF text = << "{", "}" >>
    THEN [ ok |-> TRUE, value |-> JsonObject(FALSE, InfoNoPort) ]
    ELSE IF text = << "7" >>
    THEN [ ok |-> TRUE, value |-> [ kind |-> "number" ] ]
    ELSE [ ok |-> FALSE, value |-> NullValue ]

\* The body of the "message" handler after socket.close(): what it resolves with.
ParseReply(msgStr) ==
    LET jsonStart == IndexOf(msgStr, "{")
        jsonEnd == LastIndexOf(msgStr, "}")
    IN  IF jsonStart = -1 \/ jsonEnd = -1 THEN NullValue
        ELSE LET jsonStr == Substring(msgStr, jsonStart, jsonEnd + 1)
                 parsed == JsonParse(jsonStr)
             IN  IF parsed.ok THEN parsed.value ELSE NullValue

\* socket.send(packet, port, host, cb) throws on a port that is not an integer
\* of 1..65535; inside the promise executor that rejects the promise.
SendRejects(port) == port < 1 \/ port > MaxPort

\* socket.close()
SocketLeftOpen(c) == c
SocketClose(c) == [ c EXCEPT !.closed = TRUE, !.closeCalls = @ + 1 ]

\* clearTimeout(timer)
ClearTimeout(c) == [ c EXCEPT !.timer = IF @ = "armed" THEN "cleared" ELSE @ ]

DiscoverPorts == { 0, 19813, MaxPort, MaxPort + 1 }

InitDiscover ==
    /\ NoScan
    /\ cp = CpIdle
    /\ \E p \in DiscoverPorts : dc = [ DcIdle EXCEPT !.port = p ]
    /\ sn = SnIdle
    /\ sc = ScIdle
    /\ cc = CcIdle
    /\ sv = SvIdle
    /\ pj = PjIdle
    /\ lo = LoIdle
    /\ ss = SsIdle

\* discover4DServer is called: the promise executor makes the socket, builds
\* the packet, arms the timer, attaches the listeners and calls socket.send.
Discover4DServerCall ==
    /\ dc.state = "none"
    /\ dc' = [ dc EXCEPT !.timer = "armed",
                         !.sent = Build4DDiscoveryPacket,
                         !.sendCb = IF SendRejects(dc.port) THEN "none" ELSE "pending",
                         !.state = IF SendRejects(dc.port) THEN "rejected" ELSE "pending" ]
    /\ UNCHANGED << scanVars, cp, sn, sc, cc, sv, pj, lo, ss >>

\* The timer runs out.
DiscoverTimeout ==
    /\ dc.timer = "armed"
    /\ dc' = [ Resolve(SocketClose(dc), NullValue) EXCEPT
                 !.timer = "fired",
                 !.cause = IF dc.state = "pending" THEN "timeout" ELSE @ ]
    /\ UNCHANGED << scanVars, cp, sn, sc, cc, sv, pj, lo, ss >>

\* A datagram arrives on the socket, which send has bound and nothing has
\* closed: the "message" handler.
DiscoverMessage(msg) ==
    /\ dc.sendCb # "none"
    /\ ~dc.closed
    /\ dc' = [ Resolve(SocketClose(ClearTimeout(dc)), ParseReply(msg)) EXCEPT
                 !.consumed = @ + 1, !.msg = msg, !.cause = "message" ]
    /\ UNCHANGED << scanVars, cp, sn, sc, cc, sv, pj, lo, ss >>

\* The open socket emits "error".
DiscoverSocketError ==
    /\ dc.sendCb # "none"
    /\ ~dc.closed
    /\ dc' = [ Resolve(SocketClose(ClearTimeout(dc)), NullValue) EXCEPT
                 !.cause = "error" ]
    /\ UNCHANGED << scanVars, cp, sn, sc, cc, sv, pj, lo, ss >>

\* The callback of socket.send runs, with an error or without; a closed
\* socket has no send left to report.
DiscoverSendCallback(err) ==
    /\ dc.sendCb = "pending"
    /\ ~dc.closed
    /\ dc' = IF err
             THEN [ Resolve(SocketClose(ClearTimeout(dc)), NullValue) EXCEPT
                      !.sendCb = "called", !.cause = "send" ]
             ELSE [ dc EXCEPT !.sendCb = "called" ]
    /\ UNCHANGED << scanVars, cp, sn, sc, cc, sv, pj, lo, ss >>

NextDiscover ==
    \/ Discover4DServerCall
    \/ DiscoverTimeout
    \/ \E msg \in Messages : DiscoverMessage(msg)
    \/ DiscoverSocketError
    \/ \E err \in BOOLEAN : DiscoverSendCallback(err)

SpecDiscover == InitDiscover /\ [][NextDiscover]_vars

\* -------------------------------------------- calculateSubnet, generateSubnetIPs
\* A dotted address is the tuple of its four numbers: split(".").map(Number)
\* and join(".") turn one into the other, also for a part of -1 or 256.

\* The address of the first interface that is IPv4 and not internal ...
LocalAddresses ==
    { << 192, 168, 1, 50 >>, << 10, 0, 0, 1 >>, << 172, 16, 255, 255 >>,
      << 192, 168, 1, 0 >>, << 169, 254, 7, 129 >> }
\* ... and its netmask, of prefix length 2 to 32.
Prefixes == 2..32
RECURSIVE Pow2(_)
Pow2(n) == IF n = 0 THEN 1 ELSE 2 * Pow2(n - 1)
MaskBits(n, i) ==
    IF n - 8 * (i - 1) >= 8 THEN 8
    ELSE IF n - 8 * (i - 1) <= 0 THEN 0 ELSE n - 8 * (i - 1)
Netmask(n) == [ i \in 1..4 |-> 256 - Pow2(8 - MaskBits(n, i)) ]

\* a & b and a | b of numbers of 0..255
RECURSIVE BitAnd(_, _)
BitAndAsMin(a, b) == Min(a, b)
BitAnd(a, b) ==
    IF a = 0 \/ b = 0 THEN 0
    ELSE (a % 2) * (b % 2) + 2 * BitAnd(a \div 2, b \div 2)
RECURSIVE BitOr(_, _)
BitOr(a, b) ==
    IF a = 0 THEN b
    ELSE IF b = 0 THEN a
    ELSE (IF a % 2 = 1 \/ b % 2 = 1 THEN 1 ELSE 0) + 2 * BitOr(a \div 2, b \div 2)

\* invertedMask.reduce((acc, val) => acc * (val + 1), 1) - 2
RECURSIVE Reduce(_, _)
Reduce(acc, vals) ==
    IF vals = << >> THEN acc ELSE Reduce(acc * (Head(vals) + 1), Tail(vals))
TotalHostsFloored(invertedMask) ==
    IF Reduce(1, invertedMask) - 2 < 0 THEN 0 ELSE Reduce(1, invertedMask) - 2
TotalHosts(invertedMask) == Reduce(1, invertedMask) - 2

CalculateSubnet(ip, netmask) ==
    LET networkParts == [ i \in 1..4 |-> BitAnd(ip[i], netmask[i]) ]
        invertedMask == [ i \in 1..4 |-> 255 - netmask[i] ]
        broadcastParts == [ i \in 1..4 |-> BitOr(networkParts[i], invertedMask[i]) ]
        firstHostParts == [ networkParts EXCEPT ![4] = @ + 1 ]
        lastHostParts == [ broadcastParts EXCEPT ![4] = @ - 1 ]
    IN  [ localIp |-> ip, netmask |-> netmask, networkAddress |-> networkParts,
          broadcastAddress |-> broadcastParts, firstHost |-> firstHostParts,
          lastHost |-> lastHostParts, totalHosts |-> TotalHosts(invertedMask) ]

\* startParts[0] === endParts[0] && startParts[1] === endParts[1] && ...
SameAlways(startParts, endParts) == TRUE
SameFirstThree(startParts, endParts) ==
    /\ startParts[1] = endParts[1]
    /\ startParts[2] = endParts[2]
    /\ startParts[3] = endParts[3]

GenerateSubnetIPs(subnetInfo) ==
    LET startParts == subnetInfo.firstHost
        endParts == subnetInfo.lastHost
        localParts == subnetInfo.localIp
    IN  IF SameFirstThree(startParts, endParts)
        THEN [ k \in 1..(endParts[4] - startParts[4] + 1) |->
                 << startParts[1], startParts[2], startParts[3], startParts[4] + k - 1 >> ]
        ELSE [ k \in 1..254 |-> << localParts[1], localParts[2], localParts[3], k >> ]

InitSubnet ==
    /\ NoScan
    /\ cp = CpIdle
    /\ dc = DcIdle
    /\ \E a \in LocalAddresses : \E n \in Prefixes :
          sn = [ stage |-> "interface", ip |-> a, mask |-> Netmask(n),
                 info |-> << >>, ips |-> << >> ]
    /\ sc = ScIdle
    /\ cc = CcIdle
    /\ sv = SvIdle
    /\ pj = PjIdle
    /\ lo = LoIdle
    /\ ss = SsIdle

\* getLocalNetworkInfo() returns calculateSubnet(addr.address, addr.netmask).
GetLocalNetworkInfo ==
    /\ sn.stage = "interface"
    /\ sn' = [ sn EXCEPT !.stage = "subnet", !.info = CalculateSubnet(sn.ip, sn.mask) ]
    /\ UNCHANGED << scanVars, cp, dc, sc, cc, sv, pj, lo, ss >>

\* const ips = generateSubnetIPs(subnetInfo)
GenerateIPs ==
    /\ sn.stage = "subnet"
    /\ sn' = [ sn EXCEPT !.stage = "ips", !.ips = GenerateSubnetIPs(sn.info) ]
    /\ UNCHANGED << scanVars, cp, dc, sc, cc, sv, pj, lo, ss >>

NextSubnet == GetLocalNetworkInfo \/ GenerateIPs

SpecSubnet == InitSubnet /\ [][NextSubnet]_vars

\* ------------------------------------------------- the scan cache (serverManager)
\* let scanCache: ScanCache | null = null, its five functions, and Date.now().
\* Times are in milliseconds. portsByHost is stored and never read; it is
\* left out.

\* The server lists a scan can end with.
ServerLists == { << >>, << "a" >>, << "a", "b" >> }
\* cacheTimeoutSeconds as the callers pass it.
Ttls == { 60, 120 }
\* The time that passes between two calls.
ClockSteps == { 59000, 60000, 61000 }
MaxNow == 122000
MaxCacheOps == 3

\* scanCache = null
NoCache == [ present |-> FALSE, servers |-> << >>, timestamp |-> 0 ]
\* No call has returned since the cache or the clock last changed.
NoOut == [ op |-> "none", ttl |-> 0, seen |-> NoCache, value |-> NoCache ]

GetScanCache(scanCache) == scanCache

\* scanCache = { servers, timestamp: Date.now(), portsByHost }
ScanCacheKeepingTime(scanCache, servers, dateNow) ==
    IF scanCache.present THEN [ scanCache EXCEPT !.servers = servers ]
    ELSE [ present |-> TRUE, servers |-> servers, timestamp |-> dateNow ]
SetScanCache(scanCache, servers, dateNow) ==
    [ present |-> TRUE, servers |-> servers, timestamp |-> dateNow ]

\* scanCache = null
ScanCacheKept(scanCache) == scanCache
ClearScanCache(scanCache) == NoCache

StaleFromTimeout(scanCache, dateNow, cacheTimeoutSeconds) ==
    IF ~scanCache.present THEN TRUE
    ELSE dateNow - scanCache.timestamp >= cacheTimeoutSeconds * 1000
IsScanCacheStale(scanCache, dateNow, cacheTimeoutSeconds) ==
    IF ~scanCache.present THEN TRUE
    ELSE dateNow - scanCache.timestamp > cacheTimeoutSeconds * 1000

\* "" as << >>, `${n}s ago` as << n, "s ago" >>, `${n}m ago` as << n, "m ago" >>
GetScanCacheAge(scanCache, dateNow) ==
    IF ~scanCache.present THEN << >>
    ELSE LET ageMs == dateNow - scanCache.timestamp
             ageSeconds == ageMs \div 1000
         IN  IF ageSeconds < 60 THEN << ageSeconds, "s ago" >>
             ELSE << ageSeconds \div 60, "m ago" >>

InitCache ==
    /\ NoScan
    /\ cp = CpIdle
    /\ dc = DcIdle
    /\ sn = SnIdle
    /\ sc = [ stage |-> "cache", scanCache |-> NoCache, now |-> 0,
              history |-> << >>, out |-> NoOut ]
    /\ cc = CcIdle
    /\ sv = SvIdle
    /\ pj = PjIdle
    /\ lo = LoIdle
    /\ ss = SsIdle

\* A scan completes: setScanCache(servers, new Map()).
CacheSet(servers) ==
    /\ sc.stage = "cache"
    /\ Len(sc.history) < MaxCacheOps
    /\ sc' = [ sc EXCEPT
                 !.scanCache = SetScanCache(sc.scanCache, servers, sc.now),
                 !.history = Append(@, [ op |-> "set", servers |-> servers,
                                         timestamp |-> sc.now ]),
                 !.out = NoOut ]
    /\ UNCHANGED << scanVars, cp, dc, sn, cc, sv, pj, lo, ss >>

\* Rescan is chosen: clearScanCache().
CacheClear ==
    /\ sc.stage = "cache"
    /\ Len(sc.history) < MaxCacheOps
    /\ sc' = [ sc EXCEPT
                 !.scanCache = ClearScanCache(sc.scanCache),
                 !.history = Append(@, [ op |-> "clear", servers |-> << >>,
                                         timestamp |-> sc.now ]),
                 !.out = NoOut ]
    /\ UNCHANGED << scanVars, cp, dc, sn, cc, sv, pj, lo, ss >>

CacheGet ==
    /\ sc.stage = "cache"
    /\ sc' = [ sc EXCEPT !.out = [ op |-> "get", ttl |-> 0, seen |-> sc.scanCache,
                                    value |-> GetScanCache(sc.scanCache) ] ]
    /\ UNCHANGED << scanVars, cp, dc, sn, cc, sv, pj, lo, ss >>

CacheIsStale(ttl) ==
    /\ sc.stage = "cache"
    /\ sc' = [ sc EXCEPT !.out = [ op |-> "isStale", ttl |-> ttl, seen |-> sc.scanCache,
                                    value |-> IsScanCacheStale(sc.scanCache, sc.now, ttl) ] ]
    /\ UNCHANGED << scanVars, cp, dc, sn, cc, sv, pj, lo, ss >>

CacheAge ==
    /\ sc.stage = "cache"
    /\ sc' = [ sc EXCEPT !.out = [ op |-> "age", ttl |-> 0, seen |-> sc.scanCache,
                                    value |-> GetScanCacheAge(sc.scanCache, sc.now) ] ]
    /\ UNCHANGED << scanVars, cp, dc, sn, cc, sv, pj, lo, ss >>

\* Time passes between two calls; no call spans a change of the cache.
CacheClock(d) ==
    /\ sc.stage = "cache"
    /\ sc.now + d <= MaxNow
    /\ sc' = [ sc EXCEPT !.now = @ + d, !.out = NoOut ]
    /\ UNCHANGED << scanVars, cp, dc, sn, cc, sv, pj, lo, ss >>

NextCache ==
    \/ \E servers \in ServerLists : CacheSet(servers)
    \/ CacheClear
    \/ CacheGet
    \/ \E ttl \in Ttls : CacheIsStale(ttl)
    \/ CacheAge
    \/ \E d \in ClockSteps : CacheClock(d)

SpecCache == InitCache /\ [][NextCache]_vars

\* ------------------------------------------- the connect-to-server command
\* One quick pick at a time: its closure (scanSettings, discoveredServers,
\* isScanning, scanComplete), the scanSubnetUDP runs it has in flight
\* (`running`), the cache and the clock. Hiding the quick pick
\* does not stop its scan; a scan still running when the command is invoked
\* again goes on as one of `orphans`. The status checks of the saved servers
\* touch neither the cache nor the scan and are left out.
MaxOrphans == 1

\* cache && !isScanCacheStale(scanSettings.cacheTimeout)
UseCacheIfPresent(scanCache, dateNow, cacheTimeout) == scanCache.present
UseCache(scanCache, dateNow, cacheTimeout) ==
    scanCache.present /\ ~IsScanCacheStale(scanCache, dateNow, cacheTimeout)

\* startScan() up to the call of scanSubnetUDP
StartScan(c) ==
    IF c.isScanning THEN c
    ELSE [ c EXCEPT !.isScanning = TRUE, !.scanComplete = FALSE, !.discovered = << >>,
                    !.running = @ + 1 ]

\* The `Rescan Network` item is in the list.
RescanAlwaysShown(c) == TRUE
RescanShown(c) == ~c.isScanning \/ c.scanComplete

IsPrefix(s, t) == Len(s) <= Len(t) /\ SubSeq(t, 1, Len(s)) = s

InitConnect ==
    /\ NoScan
    /\ cp = CpIdle
    /\ dc = DcIdle
    /\ sn = SnIdle
    /\ sc = ScIdle
    /\ sv = SvIdle
    /\ cc = [ stage |-> "closed", cacheTimeout |-> 120, isScanning |-> FALSE,
              scanComplete |-> FALSE, discovered |-> << >>, fromCache |-> FALSE,
              rescanned |-> FALSE, last |-> "none", scanCache |-> NoCache,
              now |-> 0, running |-> 0, orphans |-> 0 ]
    /\ pj = PjIdle
    /\ lo = LoIdle
    /\ ss = SsIdle

\* The command is invoked: the closure is created, the cache is looked at and
\* the quick pick is shown.
ConnectOpen(ttl) ==
    /\ cc.stage \in { "closed", "hidden" }
    /\ cc.orphans + cc.running <= MaxOrphans
    /\ LET fresh == [ cc EXCEPT !.stage = "open", !.cacheTimeout = ttl,
                                !.isScanning = FALSE, !.scanComplete = FALSE,
                                !.discovered = << >>, !.rescanned = FALSE,
                                !.last = "open", !.running = 0,
                                !.orphans = @ + cc.running ]
       IN  IF UseCache(GetScanCache(cc.scanCache), cc.now, ttl)
           THEN cc' = [ fresh EXCEPT !.discovered = cc.scanCache.servers,
                                     !.scanComplete = TRUE, !.fromCache = TRUE ]
           ELSE cc' = [ StartScan(fresh) EXCEPT !.fromCache = FALSE ]
    /\ UNCHANGED << scanVars, cp, dc, sn, sc, sv, pj, lo, ss >>

\* onDidAccept with the rescan item selected
ConnectRescan ==
    /\ cc.stage = "open"
    /\ RescanShown(cc)
    /\ cc' = [ StartScan(cc) EXCEPT !.scanCache = ClearScanCache(cc.scanCache),
                                    !.rescanned = TRUE, !.last = "rescan" ]
    /\ UNCHANGED << scanVars, cp, dc, sn, sc, sv, pj, lo, ss >>

\* The progress callback of the scan adds what was found.
ConnectProgress(found) ==
    /\ cc.stage \in { "open", "hidden" }
    /\ cc.running > 0
    /\ IsPrefix(cc.discovered, found)
    /\ cc' = [ cc EXCEPT !.discovered = found, !.last = "progress" ]
    /\ UNCHANGED << scanVars, cp, dc, sn, sc, sv, pj, lo, ss >>

\* scanSubnetUDP(...).then
ConnectScanDone ==
    /\ cc.stage \in { "open", "hidden" }
    /\ cc.running > 0
    /\ cc' = [ cc EXCEPT !.scanComplete = TRUE, !.isScanning = FALSE,
                         !.running = @ - 1,
                         !.scanCache = SetScanCache(@, cc.discovered, cc.now),
                         !.last = "done" ]
    /\ UNCHANGED << scanVars, cp, dc, sn, sc, sv, pj, lo, ss >>

\* scanSubnetUDP(...).catch
ConnectScanFail ==
    /\ cc.stage \in { "open", "hidden" }
    /\ cc.running > 0
    /\ cc' = [ cc EXCEPT !.scanComplete = TRUE, !.isScanning = FALSE,
                         !.running = @ - 1, !.last = "failed" ]
    /\ UNCHANGED << scanVars, cp, dc, sn, sc, sv, pj, lo, ss >>

\* A server or `Add Server Manually` is accepted, or the quick pick is dismissed.
ConnectHide ==
    /\ cc.stage = "open"
    /\ cc' = [ cc EXCEPT !.stage = "hidden", !.last = "hide" ]
    /\ UNCHANGED << scanVars, cp, dc, sn, sc, sv, pj, lo, ss >>

\* The scan of an earlier invocation ends.
OrphanScanDone(servers) ==
    /\ cc.stage \in { "open", "hidden" }
    /\ cc.orphans > 0
    /\ cc' = [ cc EXCEPT !.orphans = @ - 1,
                         !.scanCache = SetScanCache(@, servers, cc.now),
                         !.last = "orphan" ]
    /\ UNCHANGED << scanVars, cp, dc, sn, sc, sv, pj, lo, ss >>

OrphanScanFail ==
    /\ cc.stage \in { "open", "hidden" }
    /\ cc.orphans > 0
    /\ cc' = [ cc EXCEPT !.orphans = @ - 1, !.last = "orphan" ]
    /\ UNCHANGED << scanVars, cp, dc, sn, sc, sv, pj, lo, ss >>

ConnectClock(d) ==
    /\ cc.stage \in { "closed", "open", "hidden" }
    /\ cc.now + d <= MaxNow
    /\ cc' = [ cc EXCEPT !.now = @ + d, !.last = "clock" ]
    /\ UNCHANGED << scanVars, cp, dc, sn, sc, sv, pj, lo, ss >>

NextConnect ==
    \/ \E ttl \in Ttls : ConnectOpen(ttl)
    \/ ConnectRescan
    \/ \E found \in ServerLists : ConnectProgress(found)
    \/ ConnectScanDone
    \/ ConnectScanFail
    \/ ConnectHide
    \/ \E servers \in ServerLists : OrphanScanDone(servers)
    \/ OrphanScanFail
    \/ \E d \in ClockSteps : ConnectClock(d)

SpecConnect == InitConnect /\ [][NextConnect]_vars

\* ------------------------------------------------ the scan-servers command
\* withProgress({ cancellable: true }, ...) around scanSubnetUDP. The scan calls
\* the progress callback inside its barrier step; the callback is the very
\* next step here, before anything else runs.

\* if (cancelled) { return; }
NeverSkipped(cancelled) == FALSE
SkipWhenCancelled(cancelled) == cancelled

\* Progress calls of the scan that the callback has not yet run for.
CallbackDue == sv.handled < Len(progressLog)

InitScanServers ==
    /\ InitSweep
    /\ kind = "udp"
    /\ onProgress
    /\ replyDomain = EdgeInfos
    /\ InitScan
    /\ cp = CpIdle
    /\ dc = DcIdle
    /\ sn = SnIdle
    /\ sc = ScIdle
    /\ cc = CcIdle
    /\ sv = [ stage |-> "progress", cancelled |-> FALSE, foundServers |-> << >>,
              reports |-> 0, handled |-> 0, atCancel |-> 0, scanSettled |-> FALSE,
              results |-> << >> ]
    /\ pj = PjIdle
    /\ lo = LoIdle
    /\ ss = SsIdle

\* A step of the scan the command started.
ScanServersScan ==
    /\ sv.stage # "none"
    /\ ~CallbackDue
    /\ NextUdp

\* (scanned, total, found) => { ... }
ScanServersOnProgress ==
    /\ sv.stage # "none"
    /\ CallbackDue
    /\ LET found == progressLog[sv.handled + 1].found
       IN  IF SkipWhenCancelled(sv.cancelled)
           THEN sv' = [ sv EXCEPT !.handled = @ + 1 ]
           ELSE sv' = [ sv EXCEPT !.handled = @ + 1, !.reports = @ + 1,
                                  !.foundServers = found ]
    /\ UNCHANGED << scanVars, cp, dc, sn, sc, cc, pj, lo, ss >>

\* token.onCancellationRequested: cancelled = true; resolve()
ScanServersCancel ==
    /\ sv.stage = "progress"
    /\ ~CallbackDue
    /\ sv' = [ sv EXCEPT !.cancelled = TRUE, !.atCancel = Len(progressLog),
                         !.stage = "resolved" ]
    /\ UNCHANGED << scanVars, cp, dc, sn, sc, cc, pj, lo, ss >>

\* .then(() => { if (!cancelled) resolve() })
ScanServersThen ==
    /\ sv.stage # "none"
    /\ ~CallbackDue
    /\ pc = "done"
    /\ ~sv.scanSettled
    /\ sv' = [ sv EXCEPT !.scanSettled = TRUE,
                         !.stage = IF ~sv.cancelled /\ @ = "progress"
                                   THEN "resolved" ELSE @ ]
    /\ UNCHANGED << scanVars, cp, dc, sn, sc, cc, pj, lo, ss >>

\* .catch((err) => { ...; resolve() })
ScanServersCatch ==
    /\ sv.stage # "none"
    /\ pc = "failed"
    /\ ~sv.scanSettled
    /\ sv' = [ sv EXCEPT !.scanSettled = TRUE,
                         !.stage = IF @ = "progress" THEN "resolved" ELSE @ ]
    /\ UNCHANGED << scanVars, cp, dc, sn, sc, cc, pj, lo, ss >>

\* await withProgress(...) returns; the command goes on with foundServers.
ScanServersContinue ==
    /\ sv.stage = "resolved"
    /\ ~CallbackDue
    /\ sv' = [ sv EXCEPT !.stage = "results", !.results = sv.foundServers ]
    /\ UNCHANGED << scanVars, cp, dc, sn, sc, cc, pj, lo, ss >>

NextScanServers ==
    \/ ScanServersScan
    \/ ScanServersOnProgress
    \/ ScanServersCancel
    \/ ScanServersThen
    \/ ScanServersCatch
    \/ ScanServersContinue

SpecScanServers == InitScanServers /\ [][NextScanServers]_vars

\* ------------------------------------------- the scan cache and its callers
\* The cache is one module variable of serverManager; extension.ts names it in
\* connectToServerCommand only. A behaviour is either the connect command with
\* its scans, or the scan-servers command run while the module holds a cache
\* (or none) that the connect command left: the scan-servers command has no
\* statement that names the cache, so its steps keep it.

\* What the module holds when the scan-servers command is invoked.
LeftCaches == { NoCache, SetScanCache(NoCache, << "a" >>, 0) }

InitScanServersWithCache ==
    /\ InitSweep
    /\ kind = "udp"
    /\ onProgress
    /\ replyDomain = EdgeInfos
    /\ InitScan
    /\ cp = CpIdle
    /\ dc = DcIdle
    /\ sn = SnIdle
    /\ sc = ScIdle
    /\ \E left \in LeftCaches :
          cc = [ stage |-> "idle", cacheTimeout |-> 120, isScanning |-> FALSE,
                 scanComplete |-> FALSE, discovered |-> << >>, fromCache |-> FALSE,
                 rescanned |-> FALSE, last |-> "none", scanCache |-> left,
                 now |-> 0, running |-> 0, orphans |-> 0 ]
    /\ sv = [ stage |-> "progress", cancelled |-> FALSE, foundServers |-> << >>,
              reports |-> 0, handled |-> 0, atCancel |-> 0, scanSettled |-> FALSE,
              results |-> << >> ]
    /\ pj = PjIdle
    /\ lo = LoIdle
    /\ ss = SsIdle

InitCacheUse == InitConnect \/ InitScanServersWithCache

NextCacheUse == NextConnect \/ NextScanServers

SpecCacheUse == InitCacheUse /\ [][NextCacheUse]_vars

\* ------------------------------------------------- the open-project command
\* find4DProjectFile (projectFinder) and resolveProjectFile (extension), the
\* workspace between runs and the setting 4d-helper.selectedProject.

\* The .4DProject files a workspace may hold, in the order the search meets
\* them: path, path.dirname(relativePath), and the folders above the file.
WorkspaceFiles ==
    << [ path |-> "/ws/Project/Main.4DProject", relativeDir |-> "Project",
         segments |-> << "Project" >> ],
       [ path |-> "/ws/Components/C/Project/C.4DProject",
         relativeDir |-> "Components/C/Project",
         segments |-> << "Components", "C", "Project" >> ],
       [ path |-> "/ws/a/Project/A.4DProject", relativeDir |-> "a/Project",
         segments |-> << "a", "Project" >> ],
       [ path |-> "/ws/b/Project/B.4DProject", relativeDir |-> "b/Project",
         segments |-> << "b", "Project" >> ] >>

\* Folder names that match /^components([\._]src)?$/i, among those in use.
ComponentsFolders == { "Components", "Components.src", "Components_src", "components" }

IsInsideComponentsFolder(pathSegments) ==
    \E k \in DOMAIN pathSegments : pathSegments[k] \in ComponentsFolders

\* findAll4DProjectFiles: the files present, those under a Components folder
\* left out, in search order.
FindAll4DProjectFiles(present) ==
    LET RECURSIVE Collect(_)
        Collect(k) ==
            IF k > Len(WorkspaceFiles) THEN << >>
            ELSE (IF k \in present /\ ~IsInsideComponentsFolder(WorkspaceFiles[k].segments)
                  THEN << WorkspaceFiles[k] >> ELSE << >>) \o Collect(k + 1)
    IN  Collect(1)

IsRootProject(p) == p.relativeDir = "Project" \/ p.relativeDir = "."

\* find4DProjectFile: null, the path of the only or of the first root
\* project, or the whole list.
Find4DProjectFile(present) ==
    LET allProjects == FindAll4DProjectFiles(present)
        roots == SelectSeq(allProjects, IsRootProject)
    IN  IF Len(allProjects) = 0 THEN [ kind |-> "null", path |-> "", list |-> << >> ]
        ELSE IF Len(allProjects) = 1
             THEN [ kind |-> "string", path |-> allProjects[1].path, list |-> << >> ]
        ELSE IF roots # << >>
             THEN [ kind |-> "string", path |-> roots[1].path, list |-> << >> ]
        ELSE [ kind |-> "list", path |-> "", list |-> allProjects ]

\* savedProjectPath && result.find((p) => p.path === savedProjectPath)
SavedNeverFound(projects, savedProjectPath) == FALSE
SavedProjectFound(projects, savedProjectPath) ==
    /\ savedProjectPath # ""
    /\ \E k \in DOMAIN projects : projects[k].path = savedProjectPath

\* No run of the command has ended since the workspace or the setting changed.
NoRun ==
    [ done |-> FALSE, found |-> << >>, savedAtCall |-> "", asked |-> FALSE,
      outcome |-> "" ]

InitProject ==
    /\ NoScan
    /\ cp = CpIdle
    /\ dc = DcIdle
    /\ sn = SnIdle
    /\ sc = ScIdle
    /\ cc = CcIdle
    /\ sv = SvIdle
    /\ pj = [ stage |-> "idle", present |-> { }, selectedProject |-> "",
              remembered |-> FALSE, candidates |-> << >>, run |-> NoRun ]
    /\ lo = LoIdle
    /\ ss = SsIdle

\* Files are created, moved or deleted between two runs of the command.
WorkspaceChange(present) ==
    /\ pj.stage = "idle"
    /\ present # pj.present
    /\ pj' = [ pj EXCEPT !.present = present, !.run = NoRun ]
    /\ UNCHANGED << scanVars, cp, dc, sn, sc, cc, sv, lo, ss >>

\* The user edits the setting by hand.
SettingsEdit(value) ==
    /\ pj.stage = "idle"
    /\ value # pj.selectedProject
    /\ pj' = [ pj EXCEPT !.selectedProject = value, !.remembered = FALSE,
                         !.run = NoRun ]
    /\ UNCHANGED << scanVars, cp, dc, sn, sc, cc, sv, lo, ss >>

\* resolveProjectFile up to its return or to the quick pick
ResolveProjectFile ==
    /\ pj.stage = "idle"
    /\ LET found == Find4DProjectFile(pj.present)
           begun == [ NoRun EXCEPT !.found = FindAll4DProjectFiles(pj.present),
                                   !.savedAtCall = pj.selectedProject ]
       IN  IF found.kind = "null"
           THEN pj' = [ pj EXCEPT !.run = [ begun EXCEPT !.done = TRUE ] ]
           ELSE IF found.kind = "string"
           THEN pj' = [ pj EXCEPT !.run = [ begun EXCEPT !.done = TRUE,
                                                        !.outcome = found.path ] ]
           ELSE IF SavedProjectFound(found.list, pj.selectedProject)
           THEN pj' = [ pj EXCEPT !.run = [ begun EXCEPT !.done = TRUE,
                                                        !.outcome = pj.selectedProject ] ]
           ELSE pj' = [ pj EXCEPT !.stage = "asking", !.candidates = found.list,
                                  !.run = [ begun EXCEPT !.asked = TRUE ] ]
    /\ UNCHANGED << scanVars, cp, dc, sn, sc, cc, sv, lo, ss >>

\* The user picks a project: config.update('selectedProject', path, Workspace)
PromptSelect(k) ==
    /\ pj.stage = "asking"
    /\ k \in DOMAIN pj.candidates
    /\ pj' = [ pj EXCEPT !.stage = "idle", !.candidates = << >>,
                         !.selectedProject = pj.candidates[k].path,
                         !.remembered = TRUE,
                         !.run = [ @ EXCEPT !.done = TRUE,
                                            !.outcome = pj.candidates[k].path ] ]
    /\ UNCHANGED << scanVars, cp, dc, sn, sc, cc, sv, lo, ss >>

\* The user dismisses the quick pick: return null
PromptDismiss ==
    /\ pj.stage = "asking"
    /\ pj' = [ pj EXCEPT !.stage = "idle", !.candidates = << >>,
                         !.run = [ @ EXCEPT !.done = TRUE ] ]
    /\ UNCHANGED << scanVars, cp, dc, sn, sc, cc, sv, lo, ss >>

NextProject ==
    \/ \E present \in SUBSET (DOMAIN WorkspaceFiles) : WorkspaceChange(present)
    \/ \E value \in { "" } \cup { WorkspaceFiles[k].path : k \in DOMAIN WorkspaceFiles } :
          SettingsEdit(value)
    \/ ResolveProjectFile
    \/ \E k \in DOMAIN WorkspaceFiles : PromptSelect(k)
    \/ PromptDismiss

SpecProject == InitProject /\ [][NextProject]_vars

\* ------------------------------------------------ the launch-options picker
\* LAUNCH_OPTIONS: id and group of each item ("" for an item of no group).
LaunchOptions ==
    { [ id |-> "interpreted", group |-> "mode" ],
      [ id |-> "compiled", group |-> "mode" ],
      [ id |-> "skipOnStartup", group |-> "" ],
      [ id |-> "customData", group |-> "data" ],
      [ id |-> "createData", group |-> "data" ],
      [ id |-> "dataless", group |-> "data" ],
      [ id |-> "headless", group |-> "" ] }

\* LAUNCH_OPTIONS.filter((item) => item.picked)
DefaultSelected == { [ id |-> "interpreted", group |-> "mode" ] }

\* The handler of onDidChangeSelection for an event with selectedItems, newItem
\* being newlySelected[0] (selectedItems comes in an order the code does not
\* choose, so any newly selected item may be the first): what the selection
\* and previousSelection are afterwards.
OnDidChangeSelection(selectedItems, newItem) ==
    LET filtered == { item \in selectedItems :
                        item.group # newItem.group \/ item.id = newItem.id }
    IN  IF newItem.group # "" /\ filtered # selectedItems
        THEN [ selectedItems |-> filtered, previousSelection |-> filtered ]
        ELSE [ selectedItems |-> selectedItems, previousSelection |-> selectedItems ]

InitLaunch ==
    /\ NoScan
    /\ cp = CpIdle
    /\ dc = DcIdle
    /\ sn = SnIdle
    /\ sc = ScIdle
    /\ cc = CcIdle
    /\ sv = SvIdle
    /\ pj = PjIdle
    /\ lo = [ stage |-> "open", selectedItems |-> DefaultSelected,
              previousSelection |-> DefaultSelected, resolved |-> FALSE,
              value |-> { } ]
    /\ ss = SsIdle

\* The user changes the selection (one box, the box that checks all visible
\* items, or the one that unchecks them) and the event is handled.
SelectionChange(selectedItems) ==
    /\ lo.stage = "open"
    /\ selectedItems # lo.selectedItems
    /\ LET newlySelected == selectedItems \ lo.previousSelection
       IN  IF newlySelected # { }
           THEN \E newItem \in newlySelected :
                  LET after == OnDidChangeSelection(selectedItems, newItem)
                  IN  lo' = [ lo EXCEPT !.selectedItems = after.selectedItems,
                                        !.previousSelection = after.previousSelection ]
           ELSE lo' = [ lo EXCEPT !.selectedItems = selectedItems,
                                  !.previousSelection = selectedItems ]
    /\ UNCHANGED << scanVars, cp, dc, sn, sc, cc, sv, pj, ss >>

\* onDidAccept: resolve(quickPick.selectedItems.map((item) => item.id))
LaunchAccept ==
    /\ lo.stage = "open"
    /\ lo' = [ lo EXCEPT !.stage = "accepted", !.resolved = TRUE,
                         !.value = { item.id : item \in lo.selectedItems } ]
    /\ UNCHANGED << scanVars, cp, dc, sn, sc, cc, sv, pj, ss >>

\* onDidHide without an accept: resolve(undefined)
LaunchHide ==
    /\ lo.stage = "open"
    /\ lo' = [ lo EXCEPT !.stage = "hidden", !.resolved = TRUE ]
    /\ UNCHANGED << scanVars, cp, dc, sn, sc, cc, sv, pj, ss >>

NextLaunch ==
    \/ \E selectedItems \in SUBSET LaunchOptions : SelectionChange(selectedItems)
    \/ LaunchAccept
    \/ LaunchHide

SpecLaunch == InitLaunch /\ [][NextLaunch]_vars

\* ------------------------------------------------------ the saved servers
\* getSavedServers, saveServers, addServer, removeServer of serverManager.ts.
\* Calls are awaited one after the other, so each runs from its read of the
\* setting to the end of its update with no other call in between.
ServerHosts == { "10.0.0.1", "10.0.0.2" }
ServerPorts == { 19813, 19814 }
ServerNames == { "one", "two" }
Servers == [ name : ServerNames, host : ServerHosts, port : ServerPorts ]

\* Saved lists the calls may start from: none holds a (host, port) twice.
InitialServerLists ==
    { << >>,
      << [ name |-> "one", host |-> "10.0.0.1", port |-> 19813 ] >>,
      << [ name |-> "two", host |-> "10.0.0.2", port |-> 19813 ],
         [ name |-> "one", host |-> "10.0.0.1", port |-> 19814 ] >> }

\* servers.some((s) => s.host === server.host && s.port === server.port)
ServerListed(servers, server) == \E k \in DOMAIN servers : servers[k] = server
ServerExists(servers, server) ==
    \E k \in DOMAIN servers :
        servers[k].host = server.host /\ servers[k].port = server.port

\* servers.filter((s) => !(s.host === host && s.port === port))
ServersWithout(servers, host, port) ==
    SelectSeq(servers, LAMBDA srv : ~(srv.host = host /\ srv.port = port))

NoCall == [ op |-> "none", host |-> "", port |-> 0, name |-> "", threw |-> FALSE,
            before |-> << >> ]

InitServers ==
    /\ NoScan
    /\ cp = CpIdle
    /\ dc = DcIdle
    /\ sn = SnIdle
    /\ sc = ScIdle
    /\ cc = CcIdle
    /\ sv = SvIdle
    /\ pj = PjIdle
    /\ lo = LoIdle
    /\ \E servers \in InitialServerLists :
          ss = [ stage |-> "saved", servers |-> servers, call |-> NoCall ]

\* await addServer(server)
AddServer(server) ==
    /\ ss.stage = "saved"
    /\ LET servers == ss.servers
           call == [ op |-> "add", host |-> server.host, port |-> server.port,
                     name |-> server.name, threw |-> FALSE, before |-> servers ]
       IN  IF ServerExists(servers, server)
           THEN ss' = [ ss EXCEPT !.call = [ call EXCEPT !.threw = TRUE ] ]
           ELSE ss' = [ ss EXCEPT !.servers = Append(servers, server), !.call = call ]
    /\ UNCHANGED << scanVars, cp, dc, sn, sc, cc, sv, pj, lo >>

\* await removeServer(host, port)
RemoveServer(host, port) ==
    /\ ss.stage = "saved"
    /\ LET servers == ss.servers
           filtered == ServersWithout(servers, host, port)
           call == [ op |-> "remove", host |-> host, port |-> port, name |-> "",
                     threw |-> FALSE, before |-> servers ]
       IN  IF Len(filtered) = Len(servers)
           THEN ss' = [ ss EXCEPT !.call = [ call EXCEPT !.threw = TRUE ] ]
           ELSE ss' = [ ss EXCEPT !.servers = filtered, !.call = call ]
    /\ UNCHANGED << scanVars, cp, dc, sn, sc, cc, sv, pj, lo >>

NextServers ==
    \/ \E server \in Servers : AddServer(server)
    \/ \E host \in ServerHosts : \E port \in ServerPorts : RemoveServer(host, port)

SpecServers == InitServers /\ [][NextServers]_vars

\* ================================================================ claims
Unsettled(o) ==
    \/ o \in DOMAIN probes /\ probes[o] = "pending"
    \/ o \in DOMAIN ops /\ ops[o].st \in { "udp", "followup" }

InFlightOps == { o \in (DOMAIN probes) \cup (DOMAIN ops) : Unsettled(o) }

\* C1: batches run strictly in sequence.  While a probe, a discovery or the
\* related-port follow-up of a discovery of some batch is unresolved, no host
\* of a later batch has been started, in scanSubnet and in scanSubnetUDP.
BatchesInSequence ==
    \A o \in InFlightOps : \A h \in started : BatchOf(h) <= BatchOf(o[1])

\* C1 witness: a discovery scan is in its second or a later batch with
\* operations in flight, after an earlier batch recorded a server through a
\* related-port follow-up.
BatchesInSequenceWitness ==
    /\ kind = "udp"
    /\ pc = "await"
    /\ ipIdx > 0
    /\ InFlightOps # { }
    /\ \E k \in DOMAIN foundServers :
          /\ foundServers[k].value.host \notin Range(CurrentBatch)
          /\ foundServers[k].value.relatedPorts # << >>

\* C2: with a progress callback, onProgress has been invoked once per completed
\* batch (ceil(H / batchSize) times when the scan has returned); the k-th
\* invocation happens with nothing in flight and with exactly the hosts of
\* batches 1..k started; scanned never decreases from one invocation to the next.
ProgressOncePerBatch ==
    /\ ~onProgress => progressLog = << >>
    /\ onProgress =>
         /\ Len(progressLog) = ipIdx \div batchSize
         /\ pc = "done" => Len(progressLog) = NumBatches
         /\ \A k \in DOMAIN progressLog :
               /\ progressLog[k].inFlight = 0
               /\ progressLog[k].started = HostsUpToBatch(k)
               /\ k > 1 => progressLog[k - 1].scanned <= progressLog[k].scanned

\* C2 witness: a scan whose last batch is not full has returned after two or
\* more progress invocations.
ProgressOncePerBatchWitness ==
    /\ onProgress
    /\ pc = "done"
    /\ Len(progressLog) >= 2
    /\ Len(ips) % batchSize # 0

\* C3: in scanSubnet the k-th progress invocation reports
\* scanned = min(k * batchSize, H), total = H, and results of hosts of batches
\* 1..k only.
TcpProgressArguments ==
    kind = "tcp" =>
      \A k \in DOMAIN progressLog :
         /\ progressLog[k].scanned = Min(k * batchSize, Len(ips))
         /\ progressLog[k].total = Len(ips)
         /\ \A j \in DOMAIN progressLog[k].found :
               progressLog[k].found[j].host \in HostsUpToBatch(k)

\* C3 witness: scanSubnet returned after two invocations, the last batch not
\* full, with an open result of a host of the last batch that the first
\* invocation did not hold.
TcpProgressArgumentsWitness ==
    /\ kind = "tcp"
    /\ pc = "done"
    /\ Len(progressLog) = 2
    /\ Len(ips) % batchSize # 0
    /\ progressLog[1].found # << >>
    /\ \E j \in DOMAIN result : result[j].host \notin HostsUpToBatch(1)

\* C4: in scanSubnetUDP the k-th progress invocation reports
\* scanned = |ports| * min(k * batchSize, H) and total = H * |ports|; the last
\* invocation of a scan that returned has scanned = total.
UdpProgressArguments ==
    kind = "udp" =>
      /\ \A k \in DOMAIN progressLog :
            /\ progressLog[k].scanned = Len(ports) * Min(k * batchSize, Len(ips))
            /\ progressLog[k].total = Len(ips) * Len(ports)
      /\ (pc = "done" /\ progressLog # << >>) =>
            progressLog[Len(progressLog)].scanned = progressLog[Len(progressLog)].total

\* C4 witness: a discovery scan over two ports returned after two or more
\* progress invocations, some discovery having had no reply.
UdpProgressArgumentsWitness ==
    /\ kind = "udp"
    /\ pc = "done"
    /\ Len(progressLog) >= 2
    /\ Len(ports) >= 2
    /\ Len(result) < Len(ips)

\* A list of servers holds no two entries with the same host and port.
NoDuplicateServers(list) ==
    \A a, b \in DOMAIN list :
        (list[a].host = list[b].host /\ list[a].port = list[b].port) => a = b

ServersOfHost(h) == { k \in DOMAIN foundServers : foundServers[k].value.host = h }

\* Every discovery of host h in the awaited batch has settled with the reply c.
AllPortsClaim(h, c) ==
    \A k \in DOMAIN ports :
        /\ << h, ports[k] >> \in DOMAIN ops
        /\ ops[<< h, ports[k] >>].st = "done"
        /\ ops[<< h, ports[k] >>].info = c

\* C5: the map, every list handed to onProgress and the returned list hold at
\* most one server per host and discovered port; a host all of whose probed
\* ports answered with the same reply has exactly one entry, with the port the
\* reply claims.
OneServerPerKey ==
    kind = "udp" =>
      /\ NoDuplicateServers(MapValues(foundServers))
      /\ NoDuplicateServers(result)
      /\ \A k \in DOMAIN progressLog : NoDuplicateServers(progressLog[k].found)
      /\ pc = "await" =>
           \A h \in Range(CurrentBatch) : \A c \in replyDomain :
              AllPortsClaim(h, c) =>
                 /\ Cardinality(ServersOfHost(h)) = 1
                 /\ \A k \in ServersOfHost(h) : foundServers[k].value.discoveryInfo = c

\* C5 witness: two probed ports of one host answered with the same claimed
\* port and both discoveries have settled.
OneServerPerKeyWitness ==
    /\ kind = "udp"
    /\ pc = "await"
    /\ Len(ports) >= 2
    /\ \E h \in Range(CurrentBatch) : \E c \in replyDomain : AllPortsClaim(h, c)

\* C6: the related-port follow-up is carried out at most once per key
\* host:discoveredPort within a scan.
FollowUpOncePerKey ==
    \A o1, o2 \in DOMAIN ops :
        ( /\ ops[o1].followed
          /\ ops[o2].followed
          /\ o1[1] = o2[1]
          /\ ops[o1].info = ops[o2].info ) => o1 = o2

\* C7 as stated: the map changes only in a step after which no discovery
\* chain is unresolved.
MapMutatedOnlyWhenBatchResolved ==
    [][ foundServers' # foundServers =>
          \A o \in DOMAIN ops' : ops'[o].st = "done" ]_vars

\* C7 amended: the map changes only in the step in which one discovery chain
\* of the batch started last settles, while that batch is awaited or after the
\* scan failed while awaiting it; that step sets the one entry of that chain's
\* key and leaves every other chain as it was.
MapMutatedOnlyBySettlingChain ==
    [][ foundServers' # foundServers =>
          /\ pc \in { "await", "failed" } /\ pc' = pc
          /\ \E o \in Range(CurrentPairs) :
                /\ ops[o].st # "done"
                /\ ops'[o].st = "done"
                /\ \A x \in (DOMAIN ops) \ { o } : ops'[x] = ops[x]
                /\ \E k \in DOMAIN foundServers' :
                      /\ foundServers'[k].value.host = o[1]
                      /\ foundServers'[k].value.port = ops'[o].info.port
                      /\ \A j \in (DOMAIN foundServers) \ { k } :
                            foundServers'[j] = foundServers[j] ]_vars

\* C7 witness: an entry of a host of the awaited batch is in the map while
\* another discovery of that batch is still unresolved.
MapMutatedOnlyBySettlingChainWitness ==
    /\ pc = "await"
    /\ \E o \in DOMAIN ops : ops[o].st # "done"
    /\ \E k \in DOMAIN foundServers : foundServers[k].value.host \in Range(CurrentBatch)

\* C8: scanSubnet never has more than batchSize * |ports| probes in flight.
TcpInFlightBound ==
    kind = "tcp" => InFlight <= batchSize * Len(ports)

\* C8 witness: a full batch of four or more probes is in flight.
TcpInFlightBoundWitness ==
    /\ kind = "tcp"
    /\ InFlight = batchSize * Len(ports)
    /\ InFlight >= 4

\* C9 as stated: scanSubnetUDP never has more than batchSize * |ports| sockets
\* in flight.
UdpInFlightBound ==
    kind = "udp" => InFlight <= batchSize * Len(ports)

\* C9 amended: scanSubnetUDP never has more than 5 * batchSize * |ports|
\* sockets in flight (each discovery of the batch is one UDP exchange or,
\* after its reply, up to five related-port probes).
UdpInFlightBoundWithFollowUps ==
    kind = "udp" => InFlight <= 5 * batchSize * Len(ports)

\* C9 witness: every discovery of a batch of two is in its follow-up with five
\* probes in flight.
UdpInFlightBoundWithFollowUpsWitness ==
    /\ kind = "udp"
    /\ batchSize * Len(ports) >= 2
    /\ InFlight = 5 * batchSize * Len(ports)

\* The ports p-2..p+2 that lie in 1..65535.
ValidWindow(p) == { q \in (p - 2)..(p + 2) : q >= 1 /\ q <= 65535 }

\* C10: a follow-up for an integer discovered port p probes the ports of
\* [p-2, p+2] within [1, 65535] and no other; relatedPorts of every recorded
\* server is ascending and within that window, and for the servers of the
\* awaited batch it is exactly the probed ports that answered open.
RelatedPortsInWindow ==
    kind = "udp" =>
      /\ \A o \in DOMAIN ops :
            (ops[o].followed /\ ops[o].info.form = "int") =>
                DOMAIN ops[o].tcp = ValidWindow(ops[o].info.port)
      /\ \A k \in DOMAIN foundServers :
            LET v == foundServers[k].value
            IN  /\ \A j \in 1..(Len(v.relatedPorts) - 1) :
                       v.relatedPorts[j] < v.relatedPorts[j + 1]
                /\ Range(v.relatedPorts) \subseteq ValidWindow(v.port)
                /\ v.host \in { o[1] : o \in DOMAIN ops } =>
                     \E o \in DOMAIN ops :
                        /\ o[1] = v.host
                        /\ ops[o].st = "done"
                        /\ ops[o].followed
                        /\ ops[o].info.port = v.port
                        /\ Range(v.relatedPorts) =
                             { q \in DOMAIN ops[o].tcp : ops[o].tcp[q] = "open" }

\* C10 witness: servers claiming port 1 and port 65535 are recorded, each with
\* open related ports, one of them with a probed port that did not answer.
RelatedPortsInWindowWitness ==
    /\ \E k \in DOMAIN foundServers :
          /\ foundServers[k].value.port = 1
          /\ Len(foundServers[k].value.relatedPorts) = 2
    /\ \E k \in DOMAIN foundServers :
          /\ foundServers[k].value.port = 65535
          /\ Len(foundServers[k].value.relatedPorts) = 3

\* C11: without a non-loopback IPv4 interface scanSubnet and scanSubnetUDP
\* throw "Could not determine local network information" before any batching:
\* no probe or discovery is started and onProgress is not invoked.  scanHosts
\* does not look the network up and never fails.
NoNetworkFailsBeforeBatching ==
    /\ (kind \in { "tcp", "udp" } /\ ~netUp) =>
          /\ pc \in { "idle", "failed" }
          /\ pc = "failed" => error = NoNetworkError
          /\ probes = << >>
          /\ ops = << >>
          /\ started = { }
          /\ progressLog = << >>
    /\ kind = "hosts" => (pc # "failed" /\ error = "")

\* C11 witness: a subnet scan over a non-empty port list has failed for want
\* of a network.
NoNetworkFailsBeforeBatchingWitness ==
    /\ kind \in { "tcp", "udp" }
    /\ ~netUp
    /\ pc = "failed"
    /\ error = NoNetworkError

\* C12: a scan goes from idle to running and from there to exactly one of
\* done and failed, where it stays; it fails only on leaving idle and only
\* without a local network: once batching has begun no outcome of a probe or a
\* discovery (refused, timeout, socket error, malformed or missing reply)
\* makes the scan fail.
ScanFailsOnlyWithoutNetwork ==
    [][ /\ pc = "idle" => pc' \in { "loop", "failed" }
        /\ pc = "loop" => pc' \in { "loop", "await", "done" }
        /\ pc = "await" => pc' \in { "await", "loop", "failed" }
        /\ pc \in { "done", "failed" } => (pc' = pc /\ result' = result /\ error' = error)
        /\ (pc # "failed" /\ pc' = "failed") =>
              (pc = "idle" /\ ~netUp /\ error' = NoNetworkError) ]_vars

\* C13: the list scanSubnet returns holds exactly the <<host, port>> pairs
\* whose probe reported open, each exactly once, and nothing else.
TcpResultIsOpenPairs ==
    (kind = "tcp" /\ pc = "done") =>
        /\ { << result[k].host, result[k].port >> : k \in DOMAIN result } = opened
        /\ \A a, b \in DOMAIN result :
               (result[a].host = result[b].host /\ result[a].port = result[b].port)
                  => a = b
        /\ \A k \in DOMAIN result : result[k].isOpen

\* C13 witness: scanSubnet returned after more than one batch with two or more
\* open pairs, some probed pair not being among them.
TcpResultIsOpenPairsWitness ==
    /\ kind = "tcp"
    /\ pc = "done"
    /\ NumBatches >= 2
    /\ Len(result) >= 2
    /\ Len(result) < Len(ips) * Len(ports)

\* C14: with finitely many hosts and ports, batchSize >= 1 and every probe
\* and discovery resolving, every call of scanSubnet, scanSubnetUDP and
\* scanHosts comes to its end, returning or throwing.
ScanTerminates == <>(pc \in { "done", "failed" })

\* C14 witness: a scan of three hosts has returned after every batch of it was
\* awaited and reported.
ScanTerminatesWitness ==
    /\ pc = "done"
    /\ Len(ips) = MaxHosts
    /\ ipIdx >= Len(ips)
    /\ Len(progressLog) = NumBatches

\* C15: checkPort never rejects: its promise is fulfilled with isOpen true and
\* the time elapsed since the call exactly when "connect" is the first of the
\* events connect, timeout and error, and with isOpen false and no elapsed
\* time when "timeout" or "error" is the first.
CheckPortNeverRaises ==
    /\ cp.state # "rejected"
    /\ cp.state = "fulfilled" =>
          /\ cp.value.isOpen <=> cp.firstEvent = "connect"
          /\ cp.value.isOpen => cp.value.responseTime = cp.firstAt - cp.startTime
          /\ ~cp.value.isOpen => DOMAIN cp.value = { "isOpen" }

\* C16: a fulfilled checkPort has destroyed its socket and removed its
\* listeners, has called resolve exactly once, and no later event changes
\* its result.
CheckPortReleasesSocket ==
    [][ cp'.state = "fulfilled" =>
          /\ cp'.destroyed
          /\ cp'.listeners = { }
          /\ cp'.resolveCalls = 1
          /\ cp.state = "fulfilled" => cp'.value = cp.value ]_vars

\* C16 witness: a call that found the port open is fulfilled and the clock has
\* gone on since its first event.
CheckPortReleasesSocketWitness ==
    /\ cp.state = "fulfilled"
    /\ cp.value.isOpen
    /\ cp.destroyed
    /\ cp.now > cp.firstAt

\* The characters of msg from its first "{" to its last "}", << >> when the
\* last "}" is not behind the first "{".
BraceSpan(msg) ==
    LET opens == { k \in DOMAIN msg : msg[k] = "{" }
        closes == { k \in DOMAIN msg : msg[k] = "}" }
        first == CHOOSE k \in opens : \A j \in opens : k <= j
        last == CHOOSE k \in closes : \A j \in closes : j <= k
    IN  IF opens = { } \/ closes = { } THEN << >>
        ELSE IF first < last THEN SubSeq(msg, first, last) ELSE << >>

\* C17: discover4DServer never rejects, and is fulfilled with null on a
\* timeout, on a send error, on a socket error, on a reply that lacks "{" or
\* "}" and on a reply whose span from the first "{" to the last "}" is not
\* JSON.
DiscoverNeverRaises ==
    /\ dc.state # "rejected"
    /\ (dc.state = "fulfilled" /\ dc.cause \in { "timeout", "send", "error" }) =>
          dc.value = NullValue
    /\ (dc.state = "fulfilled" /\ dc.cause = "message") =>
          /\ ("{" \notin Range(dc.msg) \/ "}" \notin Range(dc.msg)) => dc.value = NullValue
          /\ (BraceSpan(dc.msg) # << >> /\ ~JsonParse(BraceSpan(dc.msg)).ok) =>
                dc.value = NullValue

\* C18: a fulfilled discover4DServer has closed its socket, by one call of
\* close, and has called resolve exactly once; no call consumes more than one
\* reply, and nothing changes the result afterwards.
DiscoverClosesSocket ==
    [][ /\ dc'.consumed <= 1
        /\ dc'.state = "fulfilled" =>
              /\ dc'.closed
              /\ dc'.closeCalls = 1
              /\ dc'.resolveCalls = 1
              /\ dc.state = "fulfilled" => dc'.value = dc.value ]_vars

\* C18 witness: a call was fulfilled with the object of a reply that came
\* after the send callback had run.
DiscoverClosesSocketWitness ==
    /\ dc.state = "fulfilled"
    /\ dc.cause = "message"
    /\ dc.sendCb = "called"
    /\ dc.value.kind = "object"
    /\ dc.timer = "cleared"

\* C19: discover4DServer fails closed on a reply that departs from the
\* schema: what it is fulfilled with is null or an object whose host, service
\* and database are strings and whose port is an integer of 1..65535.
DiscoverFailsClosed ==
    (dc.state = "fulfilled" /\ dc.value # NullValue) =>
        /\ dc.value.kind = "object"
        /\ dc.value.strings
        /\ dc.value.form = "int"
        /\ dc.value.port >= 1
        /\ dc.value.port <= 65535

\* C20: the packet every call of discover4DServer hands to socket.send has 96
\* bytes: bytes 0-31 are zero, bytes 32-42 are "4D Server V" and bytes 43-63
\* zero, bytes 64-80 are "4DQuicNegociation" and bytes 81-95 zero.
DiscoveryPacketLayout ==
    dc.state # "none" =>
        /\ Len(dc.sent) = 96
        /\ \A k \in 1..32 : dc.sent[k] = 0
        /\ SubSeq(dc.sent, 33, 43) = << 52, 68, 32, 83, 101, 114, 118, 101, 114, 32, 86 >>
        /\ \A k \in 44..64 : dc.sent[k] = 0
        /\ SubSeq(dc.sent, 65, 81) =
              << 52, 68, 81, 117, 105, 99, 78, 101, 103, 111, 99, 105, 97, 116, 105,
                 111, 110 >>
        /\ \A k \in 82..96 : dc.sent[k] = 0

\* C20 witness: a call has sent its packet and the send callback has run.
DiscoveryPacketLayoutWitness ==
    /\ dc.state = "pending"
    /\ dc.sendCb = "called"
    /\ dc.sent # << >>

\* Bit k of a number of 0..255.
Bit(x, k) == (x \div Pow2(k)) % 2

\* The number of addresses of the subnet of a mask.
Capacity(mask) == (256 - mask[1]) * (256 - mask[2]) * (256 - mask[3]) * (256 - mask[4])

\* C21: calculateSubnet works octet by octet: network = ip & mask,
\* broadcast = network | (255 - mask), firstHost is the network address with
\* its last part plus 1, lastHost the broadcast address with its last part
\* minus 1; 192.168.1.50 with 255.255.255.0 gives 192.168.1.0, 192.168.1.255,
\* 192.168.1.1, 192.168.1.254 and 254 hosts.
SubnetPerOctet ==
    sn.stage \in { "subnet", "ips" } =>
        /\ sn.info.localIp = sn.ip
        /\ sn.info.netmask = sn.mask
        /\ \A i \in 1..4 :
              /\ sn.info.networkAddress[i] \in 0..255
              /\ sn.info.broadcastAddress[i] \in 0..255
              /\ \A k \in 0..7 :
                    /\ Bit(sn.info.networkAddress[i], k) = 1
                          <=> (Bit(sn.ip[i], k) = 1 /\ Bit(sn.mask[i], k) = 1)
                    /\ Bit(sn.info.broadcastAddress[i], k) = 1
                          <=> (Bit(sn.info.networkAddress[i], k) = 1
                               \/ Bit(sn.mask[i], k) = 0)
        /\ sn.info.firstHost =
              << sn.info.networkAddress[1], sn.info.networkAddress[2],
                 sn.info.networkAddress[3], sn.info.networkAddress[4] + 1 >>
        /\ sn.info.lastHost =
              << sn.info.broadcastAddress[1], sn.info.broadcastAddress[2],
                 sn.info.broadcastAddress[3], sn.info.broadcastAddress[4] - 1 >>
        /\ (sn.ip = << 192, 168, 1, 50 >> /\ sn.mask = << 255, 255, 255, 0 >>) =>
              /\ sn.info.networkAddress = << 192, 168, 1, 0 >>
              /\ sn.info.broadcastAddress = << 192, 168, 1, 255 >>
              /\ sn.info.firstHost = << 192, 168, 1, 1 >>
              /\ sn.info.lastHost = << 192, 168, 1, 254 >>
              /\ sn.info.totalHosts = 254

\* C21 witness: the subnet of 192.168.1.50 with a mask that ends inside the
\* third part has been computed.
SubnetPerOctetWitness ==
    /\ sn.stage = "subnet"
    /\ sn.ip = << 192, 168, 1, 50 >>
    /\ sn.mask = << 255, 255, 192, 0 >>
    /\ sn.info.networkAddress = << 192, 168, 0, 0 >>
    /\ sn.info.broadcastAddress = << 192, 168, 63, 255 >>

\* C22 as stated: totalHosts is the capacity minus 2, floored at 0, and so
\* never negative.
TotalHostsNeverNegative ==
    sn.stage \in { "subnet", "ips" } =>
        /\ sn.info.totalHosts >= 0
        /\ sn.info.totalHosts =
              (IF Capacity(sn.mask) - 2 < 0 THEN 0 ELSE Capacity(sn.mask) - 2)

\* C22 amended: totalHosts is the capacity minus 2 with no floor: 0 for a /31
\* mask, -1 for the /32 mask and for no other, never less than -1.
TotalHostsIsCapacityMinusTwo ==
    sn.stage \in { "subnet", "ips" } =>
        /\ sn.info.totalHosts = Capacity(sn.mask) - 2
        /\ sn.info.totalHosts >= -1
        /\ sn.info.totalHosts = -1 <=> sn.mask = << 255, 255, 255, 255 >>
        /\ sn.mask = << 255, 255, 255, 254 >> => sn.info.totalHosts = 0

\* C22 witness: the subnet of a /31 mask has been computed.
TotalHostsIsCapacityMinusTwoWitness ==
    /\ sn.stage = "subnet"
    /\ sn.mask = << 255, 255, 255, 254 >>
    /\ sn.info.totalHosts = 0

\* C23: for the netmask 255.255.255.255 totalHosts is -1.
DegenerateMaskTotalHosts ==
    (sn.stage \in { "subnet", "ips" } /\ sn.mask = << 255, 255, 255, 255 >>) =>
        sn.info.totalHosts = -1

\* C23 witness: the subnet of the /32 mask has been computed.
DegenerateMaskTotalHostsWitness ==
    /\ sn.stage = "subnet"
    /\ sn.mask = << 255, 255, 255, 255 >>
    /\ sn.info.networkAddress = sn.ip

\* C24: generateSubnetIPs returns, in ascending order, every address from
\* firstHost to lastHost when the two agree in their first three parts, and
\* otherwise the 254 addresses .1 to .254 under the first three parts of the
\* local address.
EnumerateHosts ==
    sn.stage = "ips" =>
        LET f == sn.info.firstHost
            l == sn.info.lastHost
        IN  IF f[1] = l[1] /\ f[2] = l[2] /\ f[3] = l[3]
            THEN /\ Len(sn.ips) = (IF l[4] >= f[4] THEN l[4] - f[4] + 1 ELSE 0)
                 /\ \A k \in DOMAIN sn.ips :
                       sn.ips[k] = << f[1], f[2], f[3], f[4] + k - 1 >>
            ELSE /\ Len(sn.ips) = 254
                 /\ \A k \in DOMAIN sn.ips :
                       sn.ips[k] = << sn.ip[1], sn.ip[2], sn.ip[3], k >>

\* C24 witness: the hosts of a subnet wider than its last part have been
\* listed, the local address lying outside the first 256 addresses of it.
EnumerateHostsWitness ==
    /\ sn.stage = "ips"
    /\ sn.info.firstHost[3] # sn.info.lastHost[3]
    /\ sn.info.firstHost[3] # sn.ip[3]
    /\ Len(sn.ips) = 254

\* The last set or clear of the cache, if any.
LastCacheOp == sc.history[Len(sc.history)]

\* C25: isScanCacheStale(ttl) is true exactly when there is no entry or
\* now - timestamp > ttl * 1000: with ttl 120 an entry set at T is not stale at
\* T + 119 s nor at exactly T + 120 s, and is stale at T + 121 s; what is stale
\* for a ttl stays stale for it until the next set.
StaleExactlyPastTtl ==
    /\ [](sc.out.op = "isStale" =>
            /\ sc.out.value <=>
                  \/ sc.history = << >>
                  \/ LastCacheOp.op = "clear"
                  \/ sc.now - LastCacheOp.timestamp > sc.out.ttl * 1000
            /\ (sc.out.ttl = 120 /\ sc.history # << >> /\ LastCacheOp.op = "set") =>
                  /\ sc.now = LastCacheOp.timestamp + 119000 => ~sc.out.value
                  /\ sc.now = LastCacheOp.timestamp + 120000 => ~sc.out.value
                  /\ sc.now = LastCacheOp.timestamp + 121000 => sc.out.value)
    /\ [][\A ttl \in Ttls :
            ( /\ IsScanCacheStale(sc.scanCache, sc.now, ttl)
              /\ ~(Len(sc.history') > Len(sc.history) /\ sc.history'[Len(sc.history')].op = "set") )
            => IsScanCacheStale(sc.scanCache', sc.now', ttl)]_vars

\* C25 witness: an entry set 120 s ago is asked about with ttl 120 and is not
\* stale.
StaleExactlyPastTtlWitness ==
    /\ sc.out.op = "isStale"
    /\ sc.out.ttl = 120
    /\ sc.scanCache.present
    /\ sc.now = sc.scanCache.timestamp + 120000
    /\ ~sc.out.value

\* C26: after any sequence of sets and clears getScanCache returns null when
\* nothing was set since the start or since the last clear, and otherwise the
\* list of the most recent set with the time of that set, nothing of an
\* earlier entry.
CacheHoldsLastSet ==
    sc.out.op = "get" =>
        IF sc.history = << >> \/ LastCacheOp.op = "clear"
        THEN ~sc.out.value.present
        ELSE /\ sc.out.value.present
             /\ sc.out.value.servers = LastCacheOp.servers
             /\ sc.out.value.timestamp = LastCacheOp.timestamp

\* C26 witness: a second set, later and with another list than the first, is
\* what getScanCache returns.
CacheHoldsLastSetWitness ==
    /\ sc.out.op = "get"
    /\ Len(sc.history) = 2
    /\ sc.history[1].op = "set"
    /\ sc.history[2].op = "set"
    /\ sc.history[1].servers # sc.history[2].servers
    /\ sc.history[1].timestamp # sc.history[2].timestamp
    /\ sc.out.value.servers = sc.history[2].servers

\* C27: under every interleaving of sets, clears and reads (get, isStale, age)
\* each read sees either no entry or a list and a timestamp written by one
\* and the same set.
ReadsSeeOneSet ==
    sc.out.op \in { "get", "isStale", "age" } =>
        \/ ~sc.out.seen.present
        \/ \E k \in DOMAIN sc.history :
              /\ sc.history[k].op = "set"
              /\ sc.history[k].servers = sc.out.seen.servers
              /\ sc.history[k].timestamp = sc.out.seen.timestamp

\* C27 witness: a read after a set, a clear and a set with another list at
\* another time.
ReadsSeeOneSetWitness ==
    /\ sc.out.op = "age"
    /\ sc.out.seen.present
    /\ Len(sc.history) = 3
    /\ sc.history[1].op = "set"
    /\ sc.history[2].op = "clear"
    /\ sc.history[3].op = "set"
    /\ sc.history[1].servers # sc.history[3].servers
    /\ sc.history[1].timestamp # sc.history[3].timestamp

\* C28: when the connect-to-server command opens, a scan is started exactly
\* when the cache is absent or stale for the configured cacheTimeout;
\* otherwise the cached servers fill the discovered list, and no scan starts
\* and the list stays as it is until Rescan is chosen. A scan starts in no
\* other step than the opening and Rescan.
ScanOnOpenIffNoFreshCache ==
    /\ [](cc.last = "open" =>
            /\ cc.isScanning <=>
                  \/ ~cc.scanCache.present
                  \/ cc.now - cc.scanCache.timestamp > cc.cacheTimeout * 1000
            /\ cc.isScanning => cc.discovered = << >> /\ ~cc.fromCache
            /\ ~cc.isScanning =>
                  /\ cc.discovered = cc.scanCache.servers
                  /\ cc.scanComplete
                  /\ cc.fromCache)
    /\ []((cc.stage = "open" /\ cc.fromCache /\ ~cc.rescanned) => ~cc.isScanning)
    /\ [][ /\ (cc.stage = "open" /\ cc.fromCache /\ cc'.stage = "open" /\ ~cc'.rescanned)
               => cc'.discovered = cc.discovered
           /\ (cc'.isScanning /\ (~cc.isScanning \/ cc'.last = "open"))
               => cc'.last \in { "open", "rescan" } ]_vars

\* C28 witness: the command opens on a cache set some time ago that is not
\* stale, and shows its two servers without scanning.
ScanOnOpenIffNoFreshCacheWitness ==
    /\ cc.last = "open"
    /\ cc.fromCache
    /\ ~cc.isScanning
    /\ cc.discovered = << "a", "b" >>
    /\ cc.now > cc.scanCache.timestamp

\* C28 witness of the other case: the command opens on a cache that is present
\* and stale, and scans.
ScanOnOpenStaleWitness ==
    /\ cc.last = "open"
    /\ cc.scanCache.present
    /\ cc.isScanning

\* The first n hosts of the list of the caller.
FirstHosts(n) == { ips[j] : j \in 1..n }

\* C29: scanHosts goes through the hosts in the order of the caller, one
\* bounded group (the ports of one host) at a time and awaiting each group
\* before it starts the next; it calls onProgress once after each group with
\* total = |hosts| and scanned = 1, 2, ... up to |hosts|; and it returns the
\* open results, all of them and nothing else.
HostsScanDiscipline ==
    kind = "hosts" =>
        /\ started = FirstHosts(Cardinality(started))
        /\ \A o \in DOMAIN probes :
              probes[o] = "pending" => o[1] = ips[Cardinality(started)]
        /\ InFlight <= Len(ports)
        /\ ~onProgress => progressLog = << >>
        /\ onProgress =>
              /\ Len(progressLog) \in { Cardinality(started) - 1, Cardinality(started) }
              /\ Len(progressLog) < Cardinality(started) => InFlightOps # { } \/ pc = "await"
              /\ pc = "done" => Len(progressLog) = Len(ips)
              /\ \A k \in DOMAIN progressLog :
                    /\ progressLog[k].scanned = k
                    /\ progressLog[k].total = Len(ips)
                    /\ progressLog[k].inFlight = 0
                    /\ progressLog[k].started = FirstHosts(k)
                    /\ \A j \in DOMAIN progressLog[k].found :
                          progressLog[k].found[j].host \in FirstHosts(k)
        /\ pc = "done" =>
              /\ started = Range(ips)
              /\ { << result[k].host, result[k].port >> : k \in DOMAIN result } = opened
              /\ \A a, b \in DOMAIN result :
                    (result[a].host = result[b].host /\ result[a].port = result[b].port)
                       => a = b
              /\ \A k \in DOMAIN result : result[k].isOpen

\* C29 witness: scanHosts returned for three hosts given in descending order,
\* after three progress calls, with some but not all probed pairs open.
HostsScanDisciplineWitness ==
    /\ kind = "hosts"
    /\ pc = "done"
    /\ onProgress
    /\ Len(ips) = 3
    /\ ips[1] > ips[2]
    /\ Len(progressLog) = 3
    /\ progressLog[3].scanned = 3
    /\ Len(result) >= 2
    /\ Len(result) < Len(ips) * Len(ports)

\* What the last progress call before the cancellation reported as found.
FoundAtCancel ==
    IF sv.atCancel = 0 THEN << >> ELSE progressLog[sv.atCancel].found

\* C30: in the scan-servers command, once cancellation is requested no later
\* progress callback changes the found-server list or reports progress; the
\* command goes on with what the last progress callback before the
\* cancellation reported; and the cancellation touches no discovery or probe
\* in flight, the scan going on as before.
CancelAtBatchBoundary ==
    /\ [](sv.cancelled =>
            /\ sv.foundServers = FoundAtCancel
            /\ sv.reports = sv.atCancel
            /\ sv.stage = "results" => sv.results = FoundAtCancel)
    /\ [][ /\ sv.cancelled =>
                 (sv'.foundServers = sv.foundServers /\ sv'.reports = sv.reports)
           /\ (~sv.cancelled /\ sv'.cancelled) =>
                 (ops' = ops /\ probes' = probes /\ pc' = pc /\ foundServers' = foundServers)
           /\ (sv.cancelled /\ sv' = sv) =>
                 (\A o \in DOMAIN ops : o \in DOMAIN ops' \/ ops[o].st \in { "done", "rejected" }) ]_vars

\* C30 witness: the command went on with the empty list of the first progress
\* call; after the cancellation the scan made another progress call that
\* reported a server, and returned.
CancelAtBatchBoundaryWitness ==
    /\ sv.cancelled
    /\ sv.stage = "results"
    /\ sv.atCancel = 1
    /\ sv.results = << >>
    /\ pc = "done"
    /\ sv.handled = 2
    /\ progressLog[2].found # << >>

\* The paths of the .4DProject files the last run found.
FoundPaths == { pj.run.found[k].path : k \in DOMAIN pj.run.found }

\* The files the last run found in the workspace root or its Project folder.
FoundRoots ==
    { k \in DOMAIN pj.run.found : pj.run.found[k].relativeDir \in { "Project", "." } }

\* What a run does with several candidates: the stored path if it is among
\* them, without asking; otherwise it asks, and stores and returns the choice.
AsksOrReuses ==
    IF pj.run.savedAtCall \in FoundPaths
    THEN /\ ~pj.run.asked
         /\ pj.run.outcome = pj.run.savedAtCall
         /\ pj.selectedProject = pj.run.savedAtCall
    ELSE /\ pj.run.asked
         /\ pj.run.outcome # "" =>
               (pj.run.outcome \in FoundPaths /\ pj.selectedProject = pj.run.outcome)
         /\ pj.run.outcome = "" => pj.selectedProject = pj.run.savedAtCall

LaunchGroupsExclusive ==
    lo.stage = "open" =>
        \A a, b \in lo.selectedItems :
            (a.group # "" /\ a.group = b.group) => a = b

\* The entries of the list before the last call that have its host and port.
SameHostPortBefore ==
    { k \in DOMAIN ss.call.before :
        ss.call.before[k].host = ss.call.host /\ ss.call.before[k].port = ss.call.port }

\* C33: from a saved list without duplicates, after any sequence of awaited
\* addServer and removeServer calls no two entries of the list have the same
\* host and port; addServer of a host and port that are in the list throws
\* and leaves the list as it was, and otherwise appends the server.
SavedServersUnique ==
    /\ NoDuplicateServers(ss.servers)
    /\ ss.call.op = "add" =>
          IF SameHostPortBefore # { }
          THEN ss.call.threw /\ ss.servers = ss.call.before
          ELSE /\ ~ss.call.threw
               /\ ss.servers = ss.call.before \o
                     << [ name |-> ss.call.name, host |-> ss.call.host,
                          port |-> ss.call.port ] >>

\* C33 witness: addServer threw for a host and port that the list of three
\* servers holds under another name, after a removal and a new addition.
SavedServersUniqueWitness ==
    /\ ss.call.op = "add"
    /\ ss.call.threw
    /\ Len(ss.servers) = 3
    /\ \E k \in DOMAIN ss.servers :
          /\ ss.servers[k].host = ss.call.host
          /\ ss.servers[k].port = ss.call.port
          /\ ss.servers[k].name # ss.call.name

\* C34: for every SubnetInfo of calculateSubnet generateSubnetIPs returns at
\* most 254 addresses, no two the same, each with the first three parts of
\* the local address and a last part of 1..254; for a /31 or /32 mask it
\* returns the empty list.
HostsWithinLocalBlock ==
    sn.stage = "ips" =>
        /\ Len(sn.ips) <= 254
        /\ \A a, b \in DOMAIN sn.ips : sn.ips[a] = sn.ips[b] => a = b
        /\ \A k \in DOMAIN sn.ips :
              /\ sn.ips[k][1] = sn.ip[1]
              /\ sn.ips[k][2] = sn.ip[2]
              /\ sn.ips[k][3] = sn.ip[3]
              /\ sn.ips[k][4] \in 1..254
        /\ sn.mask \in { << 255, 255, 255, 254 >>, << 255, 255, 255, 255 >> }
              => sn.ips = << >>

\* C34 witness: the empty list for the /32 mask of an address that ends in
\* 255, whose firstHost ends in 256.
HostsWithinLocalBlockWitness ==
    /\ sn.stage = "ips"
    /\ sn.mask = << 255, 255, 255, 255 >>
    /\ sn.ip[4] = 255
    /\ sn.info.firstHost[4] = 256
    /\ sn.ips = << >>

\* C35: within one scan over a list of hosts that is not empty each progress
\* call's list of results holds every entry of the list of the call before
\* it, unchanged, and what the scan returns is the list of its last progress
\* call.
ResultsMonotone ==
    /\ \A k \in DOMAIN progressLog :
          k > 1 => Range(progressLog[k - 1].found) \subseteq Range(progressLog[k].found)
    /\ (pc = "done" /\ onProgress /\ Len(ips) > 0) =>
          /\ progressLog # << >>
          /\ result = progressLog[Len(progressLog)].found

\* C35 witness: a discovery scan returned two servers after two or more
\* progress calls, the first of which reported one of them.
ResultsMonotoneWitness ==
    /\ kind = "udp"
    /\ pc = "done"
    /\ Len(progressLog) >= 2
    /\ Len(progressLog[1].found) = 1
    /\ Len(result) = 2

\* C36: the scan cache changes only in three kinds of step: the scan of the
\* connect picker completes successfully (the cache becomes the discovered
\* servers at the current time), the scan of an earlier invocation of the
\* picker completes successfully, or Rescan clears it. The step in which a
\* scan fails leaves the cache as it is, a scan started by Rescan that fails
\* straight away leaves it absent, and no step of the scan-servers command
\* changes the cache.
ScanOfPickerFails ==
    /\ cc.stage \in { "open", "hidden" }
    /\ cc'.stage = cc.stage
    /\ cc'.running < cc.running
    /\ cc'.last = "failed"

CacheWrittenOnSuccessOnly ==
    [][ /\ cc'.scanCache # cc.scanCache =>
              \/ /\ cc'.last = "done"
                 /\ cc'.running < cc.running
                 /\ cc'.scanCache = [ present |-> TRUE, servers |-> cc.discovered,
                                      timestamp |-> cc.now ]
              \/ /\ cc'.last = "orphan"
                 /\ cc'.orphans < cc.orphans
                 /\ cc'.scanCache.present
              \/ /\ cc'.last = "rescan"
                 /\ ~cc.isScanning
                 /\ ~cc'.scanCache.present
        /\ ScanOfPickerFails => cc'.scanCache = cc.scanCache
        /\ (ScanOfPickerFails /\ cc.last = "rescan") => ~cc'.scanCache.present
        /\ (sv' # sv \/ scanVars' # scanVars) => cc'.scanCache = cc.scanCache
      ]_vars

\* C36 witnesses: a scan of the picker has failed while the cache holds
\* servers; a scan started by Rescan has failed and the cache is absent; the
\* scan-servers command has finished a scan that found a server while the
\* module holds a cache.
CacheKeptOnFailureWitness ==
    /\ cc.stage = "open"
    /\ cc.last = "failed"
    /\ cc.scanCache.present
    /\ cc.scanCache.servers # << >>

CacheAbsentAfterFailedRescanWitness ==
    /\ cc.stage = "open"
    /\ cc.last = "failed"
    /\ cc.rescanned
    /\ ~cc.scanCache.present

CacheKeptByScanServersWitness ==
    /\ sv.stage = "results"
    /\ sv.results # << >>
    /\ cc.scanCache.present

\* C37: while the connect picker of one invocation exists, at most one of the
\* scans it started is in flight, and isScanning is set exactly while one is;
\* startScan changes nothing while isScanning is set; the Rescan item is in the
\* list only when none of the picker's scans is in flight, and accepting it
\* starts exactly one; the step in which the scan completes or fails clears
\* isScanning, and with the picker still open the Rescan item is in the list
\* again and startScan would start a scan.
RescanAccepted ==
    /\ cc'.last = "rescan"
    /\ cc' # cc

ScanOfPickerEnds ==
    /\ cc.stage \in { "open", "hidden" }
    /\ cc'.stage = cc.stage
    /\ cc'.running < cc.running

OneScanInFlight ==
    /\ [](cc.stage \in { "open", "hidden" } =>
            /\ cc.running <= 1
            /\ cc.isScanning <=> cc.running = 1
            /\ cc.isScanning => StartScan(cc) = cc
            /\ (cc.stage = "open" /\ RescanShown(cc)) => cc.running = 0)
    /\ [][ /\ RescanAccepted => cc.running = 0 /\ cc'.running = 1 /\ cc'.isScanning
           /\ ScanOfPickerEnds =>
                 /\ ~cc'.isScanning
                 /\ cc'.running = 0
                 /\ cc'.stage = "open" =>
                       /\ RescanShown(cc')
                       /\ StartScan(cc').running = 1
         ]_vars

\* C37 witnesses: a scan started by Rescan is in flight after an earlier scan
\* of the same picker has ended (the list shown came from that scan, not from
\* the cache); a scan of the open picker has failed and Rescan is offered.
RescanStartsOneScanWitness ==
    /\ cc.stage = "open"
    /\ cc.last = "rescan"
    /\ ~cc.fromCache
    /\ cc.running = 1
    /\ cc.isScanning

RescanOfferedAfterFailureWitness ==
    /\ cc.stage = "open"
    /\ cc.last = "failed"
    /\ cc.running = 0
    /\ RescanShown(cc)

====
